---- MODULE Spec2Model ----
(***************************************************************************)
(* Model of the personalization core of the DeepSeek Telegram bot:         *)
(*   - UserKnowledgeGraph.add_interest          (graph_memory.py)          *)
(*   - DeepSeekAnalyzer._update_graph_from_analysis (deepseek_analyzer.py) *)
(*   - NightlyAnalysisTask.run and the analyzers' per-user loop            *)
(*     (night_analyzator.py, gemini_analyzer.py, deepseek_analyzer.py),    *)
(*     with the wiring of main.py                                          *)
(*   - KnowledgeGraphManager.get_user_graph      (graph_memory.py)         *)
(*   - TaskScheduler                             (night_analyzator.py)     *)
(*   - Memory: short-term deque, daily log, storage (memory.py)            *)
(*   - TopicDetector.detect_topics               (graph_memory.py)         *)
(*                                                                         *)
(* These specifications share the variables:                               *)
(*   SpecInterest   direct add_interest calls on one graph                 *)
(*   SpecMerge      enrichment payloads merged into one graph              *)
(*   SpecNightly    runs of the nightly task                               *)
(*   SpecRuns       consecutive runs of the nightly task                   *)
(*   SpecLive       chat handlers reading graphs around a nightly run      *)
(*   SpecScheduler  the polling loop, start, stop and run_task_now         *)
(*   SpecMemory     messages appended and stored, midnights and prunings   *)
(*   SpecRecent     the deque read while messages are appended             *)
(*   SpecManager    graphs obtained, edited, saved, dropped and reloaded   *)
(*   SpecDetect     detect_topics called on texts                          *)
(*   SpecContext    get_relevant_context called on edited graphs           *)
(***************************************************************************)
EXTENDS Integers, Sequences, FiniteSets, TLC

VARIABLES
    graph,        \* the UserKnowledgeGraph under test (SpecInterest, SpecMerge)
    now,          \* the clock read by datetime.now()
    calls,        \* history: the add_interest calls made so far
    merges,       \* history: number of payloads merged so far
    last_before,  \* history: quick_facts as they were before the last merge
    last_payload, \* history: the facts of the last merged payload
    last_interests, \* history: the interests of the last merged payload
    added_facts,  \* the list _update_graph_from_analysis returned last
    wiring,       \* how the NightlyAnalysisTask and its collaborators were constructed
    daily_log,    \* Memory._daily_log: per message its sender and whether its
                  \* timestamp is at or after the last local midnight (and, as
                  \* history, the number of runs that have collected it)
    cache,        \* KnowledgeGraphManager._cache
    durable,      \* the knowledge_graphs collection of the durable store
    pc,           \* where the nightly task is in NightlyAnalysisTask.run
    runs,         \* number of runs of the nightly task that have ended
    run_status,   \* "idle", "running", "completed", or "error" (run's outer except)
    messages_by_user, \* the keys of the collected dict, in insertion order
    todo,         \* the keys run_nightly_analysis has still to visit
    outcome,      \* per collected key, how analyze_user_messages ended in this run
    results,      \* the keys of the dict run_nightly_analysis returns
    trace,        \* history: the steps of the current run, in order
    inflight,     \* the user and the interests of the payload being merged
    merged,       \* history: per user merged in the current run, the content of
                  \* its graph before the merge and after the whole payload
    observed,     \* history: what the last live read returned, and where the run was
    reads,        \* history: number of live reads so far
    clock,        \* the scheduler's local time: a day number and a minute of the day
    running,      \* TaskScheduler._running
    task_handle,  \* TaskScheduler._task_handle: 0 for None, else a polling task's id
    loops,        \* the polling tasks that exist: per id, "sleeping" or "calling"
    starts,       \* number of polling tasks created so far
    last_run,     \* the job's last_run, [day, minute]; day -1 for None
    fired_today,  \* history: invocations of the callback by the loop on clock.day
    completed_today, \* history: a callback of the job has returned on clock.day
    last_event,   \* history: the last step of the scheduler or of its clock
    topic_event,  \* history: the last call of detect_topics
    mgr_event,    \* history: the last call of a method of the KnowledgeGraphManager
    long_term,    \* the Firestore collections Memory writes: messages and users
    short_term,   \* Memory._short_term, a deque with maxlen short_memory_limit
    appended,     \* history: number of messages add_message has created so far
    mem_event     \* history: the last call of a method of Memory

graphVars == <<graph, calls, merges, last_before, last_payload, last_interests,
               added_facts>>

nightVars == <<wiring, daily_log, cache, durable, pc, runs, run_status,
               messages_by_user, todo, outcome, results, trace, inflight>>

nightVarsButLog == <<wiring, cache, durable, pc, runs, run_status,
                     messages_by_user, todo, outcome, results, trace, inflight>>

liveVars == <<merged, observed, reads>>

schedVars == <<clock, running, task_handle, loops, starts, last_run,
               fired_today, completed_today, last_event>>

memVars == <<short_term, appended, mem_event, long_term>>

vars == <<graphVars, now, nightVars, liveVars, schedVars, memVars, mgr_event, topic_event>>

-----------------------------------------------------------------------------
(* Bounds *)

MaxCalls == 4

MaxMerges == 3

MaxRuns == 1

MaxReads == 1

\* days of scheduler time after the first
MaxSchedDay == 1

\* invocations of the callback by the polling loop on one day
MaxFired == 2

\* polling tasks created
MaxStarts == 2

\* messages created by add_message
MaxMessages == 3

\* the largest count passed to get_recent and bot_responded_recently
MaxCount == 3

\* edits made to cached graphs (SpecManager)
MaxEdits == 3

\* the longest text passed to detect_topics, in characters
MaxTextLen == 4

\* capacity of the short-term deque (BotConfig.short_memory_limit)
short_memory_limit == 2

-----------------------------------------------------------------------------
(* Values *)

\* TopicCategory members, by their .value (graph_memory.py:18-30); two of them
Categories == {"gaming", "food"}

\* "general": TopicCategory.GENERAL, which has no entry in TOPIC_KEYWORDS
General == "general"

\* InterestStatus members, by their .value (models.py:28-31)
Statuses == {"likes", "dislikes"}

\* interest names; "Dota" and "dota" differ only in letter case
Names == {"dota", "Dota", "cs"}

\* facts an enrichment payload may list; "F1" and "f1" differ only in letter case
Facts == {"f1", "F1", "f2"}

\* a payload of nine distinct facts, none of them in Facts
ManyFacts == <<"o1", "o2", "o3", "o4", "o5", "o6", "o7", "o8", "o9">>

\* a payload of eleven distinct facts, one more than quick_facts keeps
OverflowFacts == ManyFacts \o <<"o10", "o11">>

\* the "facts" lists of the payloads: every list of at most two of Facts
\* (a fact may be listed twice), ManyFacts and OverflowFacts
FactPayloads ==
    {<<>>} \cup {<<f>> : f \in Facts} \cup {<<f, h>> : f \in Facts, h \in Facts}
           \cup {ManyFacts, OverflowFacts}

\* the "interests" mappings of the payloads, as lists of (category string,
\* names) in the order of the JSON object; "pets" is a category of the prompt
\* that is no TopicCategory
InterestPayloads ==
    {<<>>,
     << <<"pets", <<"cat">> >>, <<"food", <<>> >>, <<"gaming", <<"Dota", "dota">> >> >>}

\* str.lower() on the strings of the model
Lower(s) ==
    CASE s = "Dota" -> "dota"
      [] s = "F1" -> "f1"
      [] OTHER -> s

Range(seq) == {seq[i] : i \in 1..Len(seq)}

MinOf(S) == CHOOSE x \in S : \A y \in S : x <= y

\* UserKnowledgeGraph(user_id, username): no facts, no interests
\* (an absent category key is the empty list)
EmptyGraph ==
    [quick_facts |-> <<>>,
     interests   |-> [c \in Categories |-> <<>>],
     updated_at  |-> 0]

\* InterestEntry(name=name, status=status, current=True), added_at = datetime.now()
NewEntry(name, status, t) ==
    [name |-> name, status |-> status, added_at |-> t, current |-> TRUE]

-----------------------------------------------------------------------------
(* The nightly task: values *)

\* Telegram user ids
Users == {1, 2}

\* Memory.BOT_USER_ID
BOT_USER_ID == -1

\* how the task can be constructed:
\*   analyzer_loop     the analyzer passed to NightlyAnalysisTask has a
\*                     run_nightly_analysis method (GeminiAnalyzer has one,
\*                     DeepSeekAnalyzer has none)
\*   knowledge_manager NightlyAnalysisTask._knowledge_manager is set
\*   memory            NightlyAnalysisTask._memory is set
\*   db                the Firestore client exists (Memory.storage is set)
\* The wirings explored: the complete one, each one that lacks one of the four,
\* and the one of main.py (MainWiring, which lacks two).
Wirings ==
    {w \in [analyzer_loop : BOOLEAN, knowledge_manager : BOOLEAN,
            memory : BOOLEAN, db : BOOLEAN] :
        \/ Cardinality({f \in DOMAIN w : ~w[f]}) <= 1
        \/ (~w.analyzer_loop /\ ~w.knowledge_manager /\ w.memory /\ w.db)}

\* DeepSeekBot._setup_nightly_analysis: a DeepSeekAnalyzer, memory=self.memory,
\* no knowledge_manager argument; here with Firebase available
MainWiring ==
    [analyzer_loop |-> FALSE, knowledge_manager |-> FALSE, memory |-> TRUE,
     db |-> TRUE]

\* the wiring of main.py, with or without Firebase
IsMainWiring(w) ==
    ~w.analyzer_loop /\ ~w.knowledge_manager /\ w.memory

\* a dict with no keys: the cache after construction, the store with no document
NoGraphs == [u \in {} |-> EmptyGraph]

\* d[k] = v of a dict
Put(d, k, v) == [x \in DOMAIN d \cup {k} |-> IF x = k THEN v ELSE d[x]]

\* how the enrichment call of analyze_user_messages can end: a parsed payload,
\* requests.post raising, a status code other than 200, json.loads raising
EnrichmentFailures == {"network_error", "http_error", "bad_json"}

\* the payloads the enrichment returns in a nightly run, as json.loads parses
\* them: "facts" a list of strings, and "interests" either an object (a dict,
\* whose items are kept in order) or, in the last one, a JSON list, which has
\* no items()
NightPayloads ==
    {[facts |-> <<"f1">>, interests |-> << <<"gaming", <<"dota">> >> >>,
      interests_type |-> "dict"],
     [facts |-> <<"f2", "f2">>, interests |-> <<>>, interests_type |-> "dict"],
     [facts |-> <<"f1">>, interests |-> <<>>, interests_type |-> "list"]}

\* datetime.isoformat(): the string written for a time
isoformat(t) == [iso |-> TRUE, t |-> t]

\* a string that datetime.fromisoformat does not parse
NotADate == [iso |-> FALSE, t |-> 0]

\* datetime.fromisoformat(s), for a string it parses
fromisoformat(s) == s.t

\* InterestEntry.to_dict: status.value, added_at.isoformat()
EntryToDict(entry) ==
    [name     |-> entry.name,
     status   |-> entry.status,
     added_at |-> isoformat(entry.added_at),
     current  |-> entry.current]

\* UserKnowledgeGraph.to_dict: the document written to the durable store
ToDict(g) ==
    [knowledge_graph |-> [quick_facts |-> g.quick_facts,
                          interests   |-> [c \in Categories |->
                              [i \in 1..Len(g.interests[c]) |->
                                  EntryToDict(g.interests[c][i])]]],
     updated_at |-> isoformat(g.updated_at)]

\* from_dict returns: InterestStatus(value) and fromisoformat raise for no
\* entry of the document, and updated_at parses
Reconstructible(data) ==
    /\ \A c \in Categories : \A i \in 1..Len(data.knowledge_graph.interests[c]) :
          /\ data.knowledge_graph.interests[c][i].status \in Statuses
          /\ data.knowledge_graph.interests[c][i].added_at.iso
    /\ data.updated_at.iso

\* variant of the entry constructor of from_dict that leaves current at its
\* default
EntryFromDict_default(entry_data) ==
    [name     |-> entry_data.name,
     status   |-> entry_data.status,
     added_at |-> fromisoformat(entry_data.added_at),
     current  |-> TRUE]

\* the InterestEntry from_dict builds from an entry of the document
EntryFromDict(entry_data) ==
    [name     |-> entry_data.name,
     status   |-> entry_data.status,
     added_at |-> fromisoformat(entry_data.added_at),
     current  |-> entry_data.current]

\* UserKnowledgeGraph.from_dict, for a document it reconstructs
FromDict(data) ==
    [quick_facts |-> data.knowledge_graph.quick_facts,
     interests   |-> [c \in Categories |->
                         [i \in 1..Len(data.knowledge_graph.interests[c]) |->
                             EntryFromDict(data.knowledge_graph.interests[c][i])]],
     updated_at  |-> fromisoformat(data.updated_at)]

\* no payload is being merged
NoInflight ==
    [user |-> 0, interests |-> <<>>, interests_type |-> "dict", analysed |-> <<>>,
     transcript |-> <<>>]

\* what a graph holds, apart from its time of last update
Content(g) == [quick_facts |-> g.quick_facts, interests |-> g.interests]

\* no live read has happened
NoRead ==
    [user |-> 0, graph |-> EmptyGraph, pc |-> "none", miss |-> FALSE,
     had_doc |-> FALSE, doc |-> ToDict(EmptyGraph), load_ok |-> FALSE,
     allowed |-> {}]

\* what the history keeps of a call of a method of Memory: for add_message
\* the sender, the storage calls issued in order, whether it raised and the
\* number of the message returned; for clear_daily_log whether messages were
\* removed and kept; for get_recent and bot_responded_recently the count
\* passed and what was returned
MemEvent(op) ==
    [op |-> op, crossed |-> FALSE, removed |-> FALSE, kept |-> FALSE,
     user_id |-> 0, issued |-> <<>>, raised |-> FALSE, returned |-> 0,
     count |-> 0, result |-> <<>>, answer |-> FALSE]

\* what the history keeps of a call of a method of the KnowledgeGraphManager:
\* the user, whether the graph was cached before, the graph cached before and
\* the graph held after, whether the durable store was read, the document it
\* held and how the load ended, whether the call raised, and what
\* save_user_graph returned and wrote; for get_relevant_context the topics
\* and typical_topics it was called with and the parts of the string returned
MgrEvent(op) ==
    [op |-> op, user |-> 0, hit |-> FALSE, before |-> EmptyGraph,
     graph |-> EmptyGraph, read_store |-> FALSE, had_doc |-> FALSE,
     doc |-> ToDict(EmptyGraph), load |-> "none", raised |-> FALSE,
     returned |-> FALSE, written |-> FALSE, store_before |-> NoGraphs,
     topics |-> {}, typical_topics |-> <<>>, context |-> <<>>]

\* the messages and users collections with no document: the user ids of the
\* documents of each
NoDocuments == [messages |-> {}, users |-> {}]

\* detect_topics has not been called
NoDetection == [text |-> <<>>, detected |-> {}, called |-> FALSE]

\* Memory.__init__: an empty deque and an empty daily log
MemoryAtRest ==
    /\ daily_log = <<>>
    /\ short_term = <<>>
    /\ appended = 0
    /\ mem_event = MemEvent("none")
    /\ long_term = NoDocuments

\* the nightly task before its first run, with an empty Memory and no graphs
NightlyAtRest(w) ==
    /\ wiring = w
    /\ MemoryAtRest
    /\ mgr_event = MgrEvent("none")
    /\ topic_event = NoDetection
    /\ cache = NoGraphs
    /\ durable = NoGraphs
    /\ pc = "Idle"
    /\ runs = 0
    /\ run_status = "idle"
    /\ messages_by_user = <<>>
    /\ todo = <<>>
    /\ outcome = [u \in Users \cup {BOT_USER_ID} |-> "none"]
    /\ results = {}
    /\ trace = <<>>
    /\ inflight = NoInflight
    /\ merged = NoGraphs
    /\ observed = NoRead
    /\ reads = 0

-----------------------------------------------------------------------------
(* TaskScheduler: values *)

\* the job main.py registers: NightlyAnalysisTask.register schedules
\* "nightly_analysis" at run_hour=3, run_minute=0
JobName == "nightly_analysis"

RunHour == 3

RunMinute == 0

\* names passed to run_task_now: the registered one and one that is not
TaskNames == {JobName, "cleanup"}

\* the minutes of the day at which the clock is looked at: midnight and the
\* minutes around the run time
ClockPoints == {0, 179, 180, 182}

\* "last_run": None
NoLastRun == [day |-> -1, minute |-> 0]

\* how a callback can end: it returns, it raises an Exception, or it is
\* suspended at an await and ends later
CallbackOutcomes == {"ok", "raises", "suspends"}

Abs(x) == IF x < 0 THEN -x ELSE x

\* variant of the window test with no tolerance
InWindow_exact(hour, minute, current_minutes) ==
    hour * 60 + minute = current_minutes

\* "abs(target_minutes - current_minutes) <= 1", current_minutes being the
\* minute of the day
InWindow(hour, minute, current_minutes) ==
    Abs((hour * 60 + minute) - current_minutes) <= 1

\* "last_run is None or last_run.date() < now.date()"
NotRunToday(lr, t) == lr.day = -1 \/ lr.day < t.day

\* a step of the scheduler, as the history keeps it
SchedEvent(op) ==
    [op |-> op, minute |-> 0, fresh |-> FALSE, fired |-> FALSE, name |-> "",
     result |-> "", ret |-> FALSE, invoked |-> FALSE, kept |-> FALSE,
     stamped |-> FALSE, tasks |-> 0]

\* TaskScheduler.__init__ followed by the registration of the job
SchedulerAtRest ==
    /\ clock = [day |-> 0, minute |-> 0]
    /\ running = FALSE
    /\ task_handle = 0
    /\ loops = <<>>
    /\ starts = 0
    /\ last_run = NoLastRun
    /\ fired_today = 0
    /\ completed_today = FALSE
    /\ last_event = SchedEvent("none")

-----------------------------------------------------------------------------
(* UserKnowledgeGraph.add_interest *)

\* variant of the lookup that compares names exactly (no .lower())
FindCurrent_exact(entries, name) ==
    LET hits == {i \in 1..Len(entries) :
                    entries[i].name = name /\ entries[i].current}
    IN IF hits = {} THEN 0 ELSE MinOf(hits)

\* the lookup loop: index of the first entry with the same lower-cased name
\* and current = True, 0 for existing_entry = None
FindCurrent(entries, name) ==
    LET hits == {i \in 1..Len(entries) :
                    Lower(entries[i].name) = Lower(name) /\ entries[i].current}
    IN IF hits = {} THEN 0 ELSE MinOf(hits)

\* variant of the status change that leaves the old entry current
Supersede_keepCurrent(entries, i, name, status, t) ==
    Append(entries, NewEntry(name, status, t))

\* status changed: existing_entry.current = False, then append the new entry
Supersede(entries, i, name, status, t) ==
    Append([entries EXCEPT ![i].current = FALSE], NewEntry(name, status, t))

\* variant of add_interest that overwrites the status of the current entry
add_interest_overwrite(g, category, name, status, t) ==
    LET entries == g.interests[category]
        i == FindCurrent(entries, name)
    IN IF i # 0
         THEN [g EXCEPT !.interests[category][i].status = status,
                        !.interests[category][i].added_at = t]
         ELSE [g EXCEPT !.interests[category] = Append(entries, NewEntry(name, status, t))]

\* variant of add_interest that puts a new entry first in the list
add_interest_prepend(g, category, name, status, t) ==
    LET entries == g.interests[category]
        i == FindCurrent(entries, name)
    IN IF i # 0 /\ entries[i].status = status
         THEN [g EXCEPT !.interests[category][i].added_at = t]
         ELSE IF i # 0
           THEN [g EXCEPT !.interests[category] =
                    <<NewEntry(name, status, t)>> \o [entries EXCEPT ![i].current = FALSE]]
           ELSE [g EXCEPT !.interests[category] = <<NewEntry(name, status, t)>> \o entries]

\* the graph after add_interest(category, name, status) called at time t
add_interest(g, category, name, status, t) ==
    LET entries == g.interests[category]
        i == FindCurrent(entries, name)
    IN IF i # 0 /\ entries[i].status = status
         THEN [g EXCEPT !.interests[category][i].added_at = t]
         ELSE IF i # 0
           THEN [g EXCEPT !.interests[category] = Supersede(entries, i, name, status, t)]
           ELSE [g EXCEPT !.interests[category] = Append(entries, NewEntry(name, status, t))]

-----------------------------------------------------------------------------
(* SpecInterest: add_interest called directly on an initially empty graph *)

InitGraph ==
    /\ graph = EmptyGraph
    /\ calls = <<>>
    /\ merges = 0
    /\ last_before = <<>>
    /\ last_payload = <<>>
    /\ last_interests = <<>>
    /\ added_facts = <<>>

InitInterest ==
    /\ InitGraph
    /\ now = 0
    /\ NightlyAtRest(MainWiring)
    /\ SchedulerAtRest

AddInterest(category, name, status) ==
    /\ Len(calls) < MaxCalls
    /\ now' = now + 1
    /\ graph' = add_interest(graph, category, name, status, now')
    /\ calls' = Append(calls, [category |-> category, name |-> name,
                               status |-> status, at |-> now'])
    /\ UNCHANGED <<topic_event, mgr_event, merges, last_before, last_payload, last_interests, added_facts, nightVars, liveVars, schedVars, memVars>>

NextInterest ==
    \E category \in Categories, name \in Names, status \in Statuses :
        AddInterest(category, name, status)

SpecInterest == InitInterest /\ [][NextInterest]_vars

-----------------------------------------------------------------------------
(* DeepSeekAnalyzer._update_graph_from_analysis *)

\* graph.quick_facts[-10:]
QuickFactsLimit == 10

\* variant of the slice that keeps the first n elements
KeepLast_first(seq, n) ==
    IF Len(seq) <= n THEN seq ELSE SubSeq(seq, 1, n)

\* seq[-n:]
KeepLast(seq, n) ==
    IF Len(seq) <= n THEN seq ELSE SubSeq(seq, Len(seq) - n + 1, Len(seq))

\* variant of the membership test that takes every fact of the payload as new
IsNewFact_always(fact, existing_facts) == TRUE

\* "if fact not in existing_facts", existing_facts = set(graph.quick_facts)
\* taken once before the loop
IsNewFact(fact, existing_facts) == fact \notin existing_facts

\* the loop over the payload's facts: quick_facts and added_facts_list after it
RECURSIVE MergeFacts(_, _, _, _)
MergeFacts(quick_facts, added, new_facts, existing_facts) ==
    IF new_facts = <<>>
      THEN [quick_facts |-> quick_facts, added |-> added]
      ELSE LET fact == Head(new_facts)
           IN IF IsNewFact(fact, existing_facts)
                THEN MergeFacts(Append(quick_facts, fact), Append(added, fact),
                                Tail(new_facts), existing_facts)
                ELSE MergeFacts(quick_facts, added, Tail(new_facts), existing_facts)

\* TopicCategory(category_str) raises ValueError unless the string is a member
IsTopicCategory(category_str) == category_str \in Categories

\* "for name in items": add_interest(category, name, LIKES), each call reading
\* the clock; the graph and the clock after the loop
RECURSIVE MergeNames(_, _, _, _)
MergeNames(g, category, items, t) ==
    IF items = <<>>
      THEN [graph |-> g, time |-> t]
      ELSE MergeNames(add_interest(g, category, Head(items), "likes", t + 1),
                      category, Tail(items), t + 1)

\* variant of the loop over the categories that an unknown category ends
RECURSIVE MergeInterests_stop(_, _, _)
MergeInterests_stop(g, interests, t) ==
    IF interests = <<>>
      THEN [graph |-> g, time |-> t]
      ELSE LET category_str == Head(interests)[1]
               items == Head(interests)[2]
           IN IF items = <<>>
                THEN MergeInterests_stop(g, Tail(interests), t)
                ELSE IF ~IsTopicCategory(category_str)
                  THEN [graph |-> g, time |-> t]
                  ELSE LET r == MergeNames(g, category_str, items, t)
                       IN MergeInterests_stop(r.graph, Tail(interests), r.time)

\* "for category_str, items in interests.items()": empty lists and unknown
\* categories are skipped
RECURSIVE MergeInterests(_, _, _)
MergeInterests(g, interests, t) ==
    IF interests = <<>>
      THEN [graph |-> g, time |-> t]
      ELSE LET category_str == Head(interests)[1]
               items == Head(interests)[2]
           IN IF items = <<>> \/ ~IsTopicCategory(category_str)
                THEN MergeInterests(g, Tail(interests), t)
                ELSE LET r == MergeNames(g, category_str, items, t)
                     IN MergeInterests(r.graph, Tail(interests), r.time)

\* _update_graph_from_analysis(graph, analysis) entered at time t: the graph
\* after it, the returned added_facts_list, and the clock
update_graph_from_analysis(g, analysis, t) ==
    LET f == MergeFacts(g.quick_facts, <<>>, analysis.facts, Range(g.quick_facts))
        g1 == [g EXCEPT !.quick_facts = KeepLast(f.quick_facts, QuickFactsLimit)]
        r == MergeInterests(g1, analysis.interests, t)
    IN [graph |-> [r.graph EXCEPT !.updated_at = r.time + 1],
        added |-> f.added,
        time  |-> r.time + 1]

-----------------------------------------------------------------------------
(* SpecMerge: enrichment payloads merged into an initially empty graph *)

InitMerge == InitInterest

Merge(facts, interests) ==
    /\ merges < MaxMerges
    /\ LET r == update_graph_from_analysis(
                    graph, [facts |-> facts, interests |-> interests], now)
       IN /\ graph' = r.graph
          /\ added_facts' = r.added
          /\ now' = r.time
    /\ merges' = merges + 1
    /\ last_before' = graph.quick_facts
    /\ last_payload' = facts
    /\ last_interests' = interests
    /\ UNCHANGED <<topic_event, mgr_event, calls, nightVars, liveVars, schedVars, memVars>>

NextMerge ==
    \E facts \in FactPayloads, interests \in InterestPayloads :
        Merge(facts, interests)

SpecMerge == InitMerge /\ [][NextMerge]_vars

-----------------------------------------------------------------------------
(* KnowledgeGraphManager *)

\* get_user_graph without the load from the durable store
get_user_graph_noload(user_id, load_ok) ==
    IF user_id \in DOMAIN cache THEN cache[user_id] ELSE EmptyGraph

\* get_user_graph building a graph from a document whatever it holds
get_user_graph_trusting(user_id, load_ok) ==
    IF user_id \in DOMAIN cache
      THEN cache[user_id]
      ELSE IF wiring.db /\ user_id \in DOMAIN durable /\ load_ok
        THEN FromDict(durable[user_id])
        ELSE EmptyGraph

\* get_user_graph reading the durable store even when the graph is cached
get_user_graph_reload(user_id, load_ok) ==
    IF wiring.db /\ user_id \in DOMAIN durable /\ load_ok
         /\ Reconstructible(durable[user_id])
      THEN FromDict(durable[user_id])
      ELSE EmptyGraph

\* get_user_graph(user_id): the cached graph; on a miss the graph from_dict
\* builds from the persisted document, when there is one, the load returns it
\* as a dict (load_ok) and from_dict does not raise; else a new graph
get_user_graph(user_id, load_ok) ==
    IF user_id \in DOMAIN cache
      THEN cache[user_id]
      ELSE IF wiring.db /\ user_id \in DOMAIN durable /\ load_ok
                 /\ Reconstructible(durable[user_id])
        THEN FromDict(durable[user_id])
        ELSE EmptyGraph

\* variant of save_user_graph that reports success whatever happened
save_user_graph_optimistic(g, write_ok, t) ==
    [returned |-> TRUE,
     graph    |-> IF wiring.db THEN [g EXCEPT !.updated_at = t] ELSE g,
     written  |-> wiring.db /\ write_ok]

\* save_user_graph(graph) at time t: without a db False is returned at once;
\* else updated_at is stamped and the document set, and a failed write is
\* logged and reported as False.  The value returned, the graph as it is
\* afterwards, and whether the document was written
save_user_graph(g, write_ok, t) ==
    [returned |-> wiring.db /\ write_ok,
     graph    |-> IF wiring.db THEN [g EXCEPT !.updated_at = t] ELSE g,
     written  |-> wiring.db /\ write_ok]

\* how the read of a document can end: a dict is returned, the call raises, or
\* what is returned is not a dict
LoadOutcomes == {"ok", "raises", "not_dict"}

\* ways a stored document can be damaged outside the program: an entry with a
\* status that is no InterestStatus, an updated_at that is no ISO date
Damages == {"bad_status", "bad_date"}

\* the document damaged in one of these ways
Damaged(data, how) ==
    IF how = "bad_date"
      THEN [data EXCEPT !.updated_at = NotADate]
      ELSE [data EXCEPT !.knowledge_graph.interests =
               [c \in Categories |->
                   [i \in 1..Len(data.knowledge_graph.interests[c]) |->
                       [data.knowledge_graph.interests[c][i] EXCEPT !.status = "loves"]]]]

\* a call of get_user_graph: the graph returned is in the cache afterwards
GetUserGraph(user_id, load) ==
    /\ pc = "Idle"
    /\ LET g == get_user_graph(user_id, load = "ok")
           hit == user_id \in DOMAIN cache
           had_doc == wiring.db /\ user_id \in DOMAIN durable
       IN /\ cache' = Put(cache, user_id, g)
          /\ mgr_event' = [MgrEvent("get_user_graph") EXCEPT
                              !.user = user_id,
                              !.hit = hit,
                              !.before = IF hit THEN cache[user_id] ELSE EmptyGraph,
                              !.graph = g,
                              !.read_store = ~hit /\ wiring.db,
                              !.had_doc = ~hit /\ had_doc,
                              !.doc = IF had_doc THEN durable[user_id]
                                                 ELSE ToDict(EmptyGraph),
                              !.load = IF ~hit /\ wiring.db THEN load ELSE "none",
                              !.store_before = durable]
    /\ UNCHANGED <<topic_event, graphVars, now, wiring, daily_log, durable, pc, runs, run_status,
                   messages_by_user, todo, outcome, results, trace, inflight,
                   liveVars, schedVars, memVars>>

\* the orders in which a for loop can go through a set
Orders(S) == {order \in [1..Cardinality(S) -> S] : Range(order) = S}

\* seq[:n]
FirstN(seq, n) == IF Len(seq) <= n THEN seq ELSE SubSeq(seq, 1, n)

\* variant of the filter that keeps every entry
current_interests_all(entries) == entries

\* "[e for e in self.interests[category] if e.current]"
current_interests(entries) == SelectSeq(entries, LAMBDA e : e.current)

\* "name (status_text)" for each entry, status_text being the Russian for
\* "likes" when the status is LIKES and for "does not like" otherwise
InterestsStr(entries) ==
    [i \in 1..Len(entries) |->
        [name |-> entries[i].name,
         status_text |-> IF entries[i].status = "likes" THEN "likes it"
                                                         ELSE "does not like"]]

\* the loop "for topic in topics" of get_relevant_context, the topics taken in
\* the given order: a line for each topic that is a key of interests and has
\* current entries
RECURSIVE InterestParts(_, _)
InterestParts(g, order) ==
    IF order = <<>>
      THEN <<>>
      ELSE LET category == Head(order)
               entries == IF category \in DOMAIN g.interests
                            THEN current_interests(g.interests[category])
                            ELSE <<>>
           IN (IF entries # <<>>
                 THEN <<[kind |-> "interests", category |-> category,
                         items |-> InterestsStr(entries)]>>
                 ELSE <<>>)
              \o InterestParts(g, Tail(order))

\* UserKnowledgeGraph.get_relevant_context(topics): context_parts, joined by
\* newlines into the string returned (the empty string when there is no
\* part).  typical_topics is the field of that name, only ever filled by
\* from_dict from the "patterns" of a document.
get_relevant_context(g, typical_topics, topics, order) ==
    (IF g.quick_facts # <<>>
       THEN <<[kind |-> "facts", category |-> "", items |-> FirstN(g.quick_facts, 5)]>>
       ELSE <<>>)
    \o InterestParts(g, order)
    \o (IF typical_topics # <<>> /\ General \in topics
          THEN <<[kind |-> "typical_topics", category |-> "",
                  items |-> FirstN(typical_topics, 3)]>>
          ELSE <<>>)

\* a call of get_relevant_context on a cached graph
GetRelevantContext(user_id, topics, order, typical_topics) ==
    /\ pc = "Idle"
    /\ user_id \in DOMAIN cache
    /\ order \in Orders(topics)
    /\ mgr_event' = [MgrEvent("get_relevant_context") EXCEPT
                        !.user = user_id,
                        !.hit = TRUE,
                        !.graph = cache[user_id],
                        !.topics = topics,
                        !.typical_topics = typical_topics,
                        !.context = get_relevant_context(cache[user_id], typical_topics,
                                                         topics, order)]
    /\ UNCHANGED <<topic_event, graphVars, now, nightVars, liveVars, schedVars, memVars>>

\* a holder of a cached graph changes it: add_interest on the graph object the
\* cache holds
EditInterest(user_id, category, name, status) ==
    /\ pc = "Idle"
    /\ user_id \in DOMAIN cache
    /\ now < MaxEdits
    /\ now' = now + 1
    /\ mgr_event' = MgrEvent("edit")
    /\ cache' = Put(cache, user_id, add_interest(cache[user_id], category, name, status, now + 1))
    /\ UNCHANGED <<topic_event, graphVars, wiring, daily_log, durable, pc, runs, run_status,
                   messages_by_user, todo, outcome, results, trace, inflight,
                   liveVars, schedVars, memVars>>

\* a holder of a cached graph merges a payload's facts into it
EditFacts(user_id, facts) ==
    /\ pc = "Idle"
    /\ user_id \in DOMAIN cache
    /\ now < MaxEdits
    /\ LET r == update_graph_from_analysis(cache[user_id],
                    [facts |-> facts, interests |-> <<>>], now)
       IN /\ now' = r.time
          /\ cache' = Put(cache, user_id, r.graph)
    /\ mgr_event' = MgrEvent("edit")
    /\ UNCHANGED <<topic_event, graphVars, wiring, daily_log, durable, pc, runs, run_status,
                   messages_by_user, todo, outcome, results, trace, inflight,
                   liveVars, schedVars, memVars>>

\* a call of save_user_graph on a graph obtained from get_user_graph
SaveUserGraph(user_id, write_ok) ==
    /\ pc = "Idle"
    /\ user_id \in DOMAIN cache
    /\ now < MaxEdits + 1
    /\ LET r == save_user_graph(cache[user_id], write_ok, now + 1)
       IN /\ now' = IF wiring.db THEN now + 1 ELSE now
          /\ cache' = Put(cache, user_id, r.graph)
          /\ durable' = IF r.written
                          THEN Put(durable, user_id, ToDict(r.graph))
                          ELSE durable
          /\ mgr_event' = [MgrEvent("save_user_graph") EXCEPT
                              !.user = user_id,
                              !.hit = TRUE,
                              !.before = cache[user_id],
                              !.graph = r.graph,
                              !.returned = r.returned,
                              !.written = r.written,
                              !.store_before = durable]
    /\ UNCHANGED <<topic_event, graphVars, wiring, daily_log, pc, runs, run_status,
                   messages_by_user, todo, outcome, results, trace, inflight,
                   liveVars, schedVars, memVars>>

\* a call of clear_cache
ClearCache ==
    /\ pc = "Idle"
    /\ cache # NoGraphs
    /\ cache' = NoGraphs
    /\ mgr_event' = MgrEvent("clear_cache")
    /\ UNCHANGED <<topic_event, graphVars, now, wiring, daily_log, durable, pc, runs, run_status,
                   messages_by_user, todo, outcome, results, trace, inflight,
                   liveVars, schedVars, memVars>>

\* a stored document is damaged outside the program
DamageDocument(user_id, how) ==
    /\ pc = "Idle"
    /\ user_id \in DOMAIN durable
    /\ Reconstructible(durable[user_id])
    /\ ~Reconstructible(Damaged(durable[user_id], how))
    /\ mgr_event' = MgrEvent("damage")
    /\ durable' = Put(durable, user_id, Damaged(durable[user_id], how))
    /\ UNCHANGED <<topic_event, graphVars, now, wiring, daily_log, cache, pc, runs, run_status,
                   messages_by_user, todo, outcome, results, trace, inflight,
                   liveVars, schedVars, memVars>>

-----------------------------------------------------------------------------
(* TopicDetector *)

\* the characters of the texts, one of them an upper-case letter
Characters == {"c", "s", "k", "f", "C"}

\* texts as lists of characters
Texts == UNION {[1..n -> Characters] : n \in 0..MaxTextLen}

\* str.lower() on a character
LowerChar(ch) == IF ch = "C" THEN "c" ELSE ch

\* text.lower()
LowerText(text) == [i \in 1..Len(text) |-> LowerChar(text[i])]

\* TOPIC_KEYWORDS: for each category but GENERAL its keywords, all of them
\* non-empty and in lower case; here 'cs' of GAMING and 'kfc' of FOOD
TOPIC_KEYWORDS ==
    [c \in Categories |->
        IF c = "gaming" THEN {<<"c", "s">>} ELSE {<<"k", "f", "c">>}]

\* "keyword in text_lower"
Contains(keyword, text) ==
    \E i \in 1..(Len(text) - Len(keyword) + 1) :
        SubSeq(text, i, i + Len(keyword) - 1) = keyword

\* variant that adds GENERAL to whatever was detected
detect_topics_general(text) ==
    {c \in DOMAIN TOPIC_KEYWORDS :
        \E keyword \in TOPIC_KEYWORDS[c] : Contains(keyword, LowerText(text))}
    \cup {General}

\* TopicDetector.detect_topics(text): the categories with a keyword in the
\* lower-cased text, and GENERAL alone when there is none
detect_topics(text) ==
    LET detected == {c \in DOMAIN TOPIC_KEYWORDS :
                        \E keyword \in TOPIC_KEYWORDS[c] :
                            Contains(keyword, LowerText(text))}
    IN IF detected = {} THEN {General} ELSE detected

\* a call of detect_topics; one call is followed, calls do not depend on each
\* other
DetectTopics(text) ==
    /\ ~topic_event.called
    /\ topic_event' = [text |-> text, detected |-> detect_topics(text), called |-> TRUE]
    /\ UNCHANGED <<graphVars, now, nightVars, liveVars, schedVars, memVars, mgr_event>>

-----------------------------------------------------------------------------
(* Memory and DailyMessageCollector *)

\* variant of the date test that lets every message into the daily log
SameDate_always(message_date, today) == TRUE

\* "if message_date == today"
SameDate(message_date, today) == message_date = today

\* variant of the deque that refuses the new message when it is full
RingAppend_dropnew(ring, message, maxlen) ==
    IF Len(ring) < maxlen THEN Append(ring, message) ELSE ring

\* deque(maxlen=n).append: the oldest message leaves when the deque is full
RingAppend(ring, message, maxlen) ==
    IF maxlen = 0
      THEN ring
      ELSE IF Len(ring) < maxlen
        THEN Append(ring, message)
        ELSE Append(Tail(ring), message)

\* variant of save_message that lets a failed write propagate
save_message_uncaught(store, message, write_ok) ==
    [raised |-> ~write_ok,
     store |-> IF write_ok
                 THEN [store EXCEPT !.messages = @ \cup {message.user_id}]
                 ELSE store]

\* FirebaseStorage.save_message: the document is added to the messages
\* collection, of which the senders of its documents are kept; a failed write
\* is logged by the except clause
save_message(store, message, write_ok) ==
    [raised |-> FALSE,
     store |-> IF write_ok
                 THEN [store EXCEPT !.messages = @ \cup {message.user_id}]
                 ELSE store]

\* FirebaseStorage.update_user: the user's document is set with merge=True; a
\* failed write is logged by the except clause
update_user(store, user_id, write_ok) ==
    [raised |-> FALSE,
     store |-> IF write_ok
                 THEN [store EXCEPT !.users = @ \cup {user_id}]
                 ELSE store]

\* variant of add_bot_response that leaves save_to_firebase at its default
save_to_firebase_default(user_id) == TRUE

\* the save_to_firebase argument: the default True in the call of main.py for
\* a message of a user, False in add_bot_response
save_to_firebase(user_id) == user_id # BOT_USER_ID

\* "self._storage": a FirebaseStorage, or None when Firebase is unavailable;
\* main.py hands the same client to the KnowledgeGraphManager
has_storage == wiring.db

\* Memory.add_message, and add_bot_response, which calls it with BOT_USER_ID:
\* the message is stamped with the time read first and appended to the deque;
\* the date is read a second time, and the message is appended to the daily
\* log when the two dates are equal; then, when save_to_firebase is set and
\* there is a storage, save_message and update_user are called, and the
\* message is returned.  crossed: local midnight passed between the two reads,
\* so the messages logged before are no longer today's either.  save_ok,
\* user_ok: whether the two writes succeed.  Dates are counted from the date
\* of the message's timestamp.  Each sender has at most one message in the log
\* at a time.
AddMessage(user_id, crossed, save_ok, user_ok) ==
    /\ pc = "Idle"
    /\ appended < MaxMessages
    /\ \A i \in 1..Len(daily_log) : daily_log[i].user_id # user_id
    /\ LET message_date == 0
           today == IF crossed THEN 1 ELSE 0
           seq == appended + 1
           message == [user_id |-> user_id, seq |-> seq]
           log == IF crossed
                    THEN [i \in 1..Len(daily_log) |->
                              [daily_log[i] EXCEPT !.today = FALSE]]
                    ELSE daily_log
           stores == save_to_firebase(user_id) /\ has_storage
           saved == save_message(long_term, message, save_ok)
           updated == update_user(saved.store, user_id, user_ok)
           raised == stores /\ (saved.raised \/ updated.raised)
       IN /\ appended' = seq
          /\ short_term' = RingAppend(short_term, message, short_memory_limit)
          /\ daily_log' = IF SameDate(message_date, today)
                            THEN Append(log, [user_id |-> user_id, today |-> ~crossed,
                                              seq |-> seq,
                                              same_day |-> (message_date = today),
                                              collected |-> 0])
                            ELSE log
          /\ long_term' = IF ~stores
                            THEN long_term
                            ELSE IF saved.raised THEN saved.store ELSE updated.store
          /\ mem_event' = [MemEvent("add_message") EXCEPT
                              !.crossed = crossed,
                              !.user_id = user_id,
                              !.issued = IF ~stores
                                           THEN <<>>
                                           ELSE IF saved.raised
                                             THEN <<"save_message">>
                                             ELSE <<"save_message", "update_user">>,
                              !.raised = raised,
                              !.returned = IF raised THEN 0 ELSE seq]
    /\ UNCHANGED <<topic_event, mgr_event, schedVars, graphVars, liveVars, inflight, now, wiring, cache, durable, pc, runs,
                   run_status, messages_by_user, todo, outcome, results, trace>>

\* list[-count:] of Python: the whole list when count is 0, the last count
\* elements (all of them when there are fewer) when count is positive, and
\* the list without its first -count elements when count is negative
LastSlice(list, count) ==
    LET n == Len(list)
        start == IF count = 0
                   THEN 0
                   ELSE IF count > 0
                     THEN (IF n - count < 0 THEN 0 ELSE n - count)
                     ELSE (IF -count > n THEN n ELSE -count)
    IN SubSeq(list, start + 1, n)

\* Memory.get_recent(count): "messages_list[-count:] if messages_list else []"
get_recent(count) ==
    IF short_term # <<>> THEN LastSlice(short_term, count) ELSE <<>>

\* Memory.bot_responded_recently(within_last_n): any message of BOT_USER_ID in
\* "list(self._short_term)[-within_last_n:]"
bot_responded_recently(within_last_n) ==
    \E i \in 1..Len(LastSlice(short_term, within_last_n)) :
        LastSlice(short_term, within_last_n)[i].user_id = BOT_USER_ID

\* a call of get_recent; nothing is written
GetRecent(count) ==
    /\ pc = "Idle"
    /\ mem_event' = [MemEvent("get_recent") EXCEPT
                        !.count = count, !.result = get_recent(count)]
    /\ UNCHANGED <<topic_event, mgr_event, short_term, appended, long_term, schedVars, graphVars, liveVars, nightVars, now>>

\* a call of bot_responded_recently; nothing is written
BotRespondedRecently(within_last_n) ==
    /\ pc = "Idle"
    /\ mem_event' = [MemEvent("bot_responded_recently") EXCEPT
                        !.count = within_last_n,
                        !.answer = bot_responded_recently(within_last_n)]
    /\ UNCHANGED <<topic_event, mgr_event, short_term, appended, long_term, schedVars, graphVars, liveVars, nightVars, now>>

\* local midnight passes: the messages logged so far are no longer today's
Midnight ==
    /\ \E i \in 1..Len(daily_log) : daily_log[i].today
    /\ daily_log' = [i \in 1..Len(daily_log) |-> [daily_log[i] EXCEPT !.today = FALSE]]
    /\ UNCHANGED <<topic_event, mgr_event, memVars, schedVars, graphVars, liveVars, inflight, now, wiring, cache, durable, pc, runs,
                   run_status, messages_by_user, todo, outcome, results, trace>>

\* the grouping loop of get_messages_for_day: the keys of messages_by_user in
\* insertion order
RECURSIVE GroupKeys(_, _)
GroupKeys(log, keys) ==
    IF log = <<>>
      THEN keys
      ELSE IF Head(log).user_id \in Range(keys)
        THEN GroupKeys(Tail(log), keys)
        ELSE GroupKeys(Tail(log), Append(keys, Head(log).user_id))

\* DailyMessageCollector.get_yesterday_messages.  The Firebase branch returns
\* nothing: a stored message document has a "date" field (ChatMessage.to_dict),
\* so ChatMessage(**msg_data) raises TypeError for every document the query
\* matches, the except clause logs it, and the collector falls back to the
\* whole daily log of Memory, grouped by user id.
get_yesterday_messages == GroupKeys(daily_log, <<>>)

\* Memory.get_daily_log: a copy of the whole list
get_daily_log == daily_log

\* variant of clear_daily_log that empties the log
clear_daily_log_all(log) == <<>>

\* Memory.clear_daily_log: keep the messages stamped at or after today's midnight
clear_daily_log(log) == SelectSeq(log, LAMBDA m : m.today)

\* what the history keeps of a call of clear_daily_log on log
PruneEvent(log) ==
    [MemEvent("clear_daily_log") EXCEPT
        !.removed = (Len(clear_daily_log(log)) < Len(log)),
        !.kept = (clear_daily_log(log) # <<>>)]

\* Memory.clear_daily_log called on its own, whether or not an analysis ran
ClearDailyLog ==
    /\ pc = "Idle"
    /\ daily_log' = clear_daily_log(daily_log)
    /\ mem_event' = PruneEvent(daily_log)
    /\ UNCHANGED <<topic_event, mgr_event, short_term, appended, long_term, schedVars, graphVars, liveVars, nightVarsButLog, now>>

-----------------------------------------------------------------------------
(* The analyzers *)

\* variant of the except clauses that lets a failed enrichment propagate
Raises_uncaught(enrichment) == enrichment \in EnrichmentFailures

\* analyze_user_messages catches json.JSONDecodeError and Exception around the
\* enrichment call and returns None: nothing propagates to the caller
Raises(enrichment) == FALSE

\* one event of the run's history
Event(ev, user_id) == [ev |-> ev, user |-> user_id]

\* "interests.items()": an "interests" value that is no dict raises
\* AttributeError, which the "except Exception" of analyze_user_messages
\* catches: the error is logged and None is returned
HasItems(interests_type) == interests_type = "dict"

\* messages_by_user[user_id] as the grouping loop of the collector builds it:
\* the messages of the log whose user_id is the key, in the order of the log
Group(log, user_id) == SelectSeq(log, LAMBDA msg : msg.user_id = user_id)

\* "user_messages = [msg for msg in messages if msg.user_id != -1 and
\* msg.user_id == user_id]": the analysis set
user_messages(messages, user_id) ==
    SelectSeq(messages, LAMBDA msg : msg.user_id # BOT_USER_ID /\ msg.user_id = user_id)

\* messages_text: one line for each message of the list handed to
\* analyze_user_messages, of which the sender is kept
messages_text(messages) == [i \in 1..Len(messages) |-> messages[i].user_id]

\* one iteration of the loop of run_nightly_analysis (gemini_analyzer.py), which
\* awaits analyze_user_messages (deepseek_analyzer.py) for the next key, up to
\* the end of the loop over the payload's facts:
\*   - no message of the key is a user's own (the key is the bot's id): None
\*   - the enrichment fails: logged, None
\*   - else get_user_graph, which caches the graph it returns, and the facts
\*     of the payload are merged into that graph in place
AnalyzeUser(enrichment, payload, load_ok) ==
    /\ pc = "Enriching"
    /\ todo # <<>>
    /\ LET user_id == Head(todo)
       IN IF user_id = BOT_USER_ID
            THEN /\ outcome' = [outcome EXCEPT ![user_id] = "skipped"]
                 /\ todo' = Tail(todo)
                 /\ UNCHANGED <<cache, trace, pc, runs, run_status, inflight, merged>>
            ELSE IF enrichment # "ok"
              THEN /\ outcome' = [outcome EXCEPT ![user_id] = enrichment]
                   /\ trace' = Append(trace, Event("enrich_failed", user_id))
                   /\ IF Raises(enrichment)
                        THEN \* through run_nightly_analysis to run's outer except
                             /\ pc' = "Done"
                             /\ run_status' = "error"
                             /\ runs' = runs
                             /\ todo' = <<>>
                        ELSE /\ todo' = Tail(todo)
                             /\ UNCHANGED <<pc, run_status, runs>>
                   /\ UNCHANGED <<cache, inflight, merged>>
              ELSE LET g0 == get_user_graph(user_id, load_ok)
                       f == MergeFacts(g0.quick_facts, <<>>, payload.facts,
                                       Range(g0.quick_facts))
                       g1 == [g0 EXCEPT !.quick_facts =
                                             KeepLast(f.quick_facts, QuickFactsLimit)]
                       whole == update_graph_from_analysis(g0, payload, now).graph
                   IN /\ cache' = Put(cache, user_id, g1)
                      /\ inflight' = [user |-> user_id, interests |-> payload.interests,
                                       interests_type |-> payload.interests_type,
                                       analysed |-> messages_text(
                                           user_messages(Group(daily_log, user_id), user_id)),
                                       transcript |-> messages_text(
                                           Group(daily_log, user_id))]
                      /\ merged' = Put(merged, user_id,
                                       [pre |-> Content(g0),
                                        post |-> IF HasItems(payload.interests_type)
                                                   THEN Content(whole)
                                                   ELSE Content(g0)])
                      /\ trace' = Append(trace, Event("enrich", user_id))
                      /\ pc' = "Merging"
                      /\ UNCHANGED <<todo, outcome, runs, run_status>>
    /\ UNCHANGED <<topic_event, mgr_event, memVars, schedVars, graphVars, now, wiring, daily_log, durable, messages_by_user,
                   results, observed, reads>>

\* the rest of analyze_user_messages for the user being merged: the loop over
\* the payload's interests, updated_at, save_user_graph (without a db nothing
\* is stamped or written), and the graph is returned and put in results.
\* When the payload's "interests" is no dict, interests.items() raises, the
\* except clause returns None, and the graph stays in the cache as it is.
FinishMerge(save_ok) ==
    /\ pc = "Merging"
    /\ LET user_id == inflight.user
           r == update_graph_from_analysis(cache[user_id],
                    [facts |-> <<>>, interests |-> inflight.interests], now)
           stamped == IF wiring.db
                        THEN [r.graph EXCEPT !.updated_at = r.time + 1]
                        ELSE r.graph
           saved == wiring.db /\ save_ok
       IN IF ~HasItems(inflight.interests_type)
            THEN \* the facts stay in the cached graph; nothing is saved
                 /\ outcome' = [outcome EXCEPT ![user_id] = "merge_failed"]
                 /\ trace' = Append(trace, Event("merge_failed", user_id))
                 /\ UNCHANGED <<cache, durable, now, results>>
            ELSE /\ cache' = Put(cache, user_id, stamped)
                 /\ durable' = IF saved
                                 THEN Put(durable, user_id, ToDict(stamped))
                                 ELSE durable
                 /\ now' = IF wiring.db THEN r.time + 1 ELSE r.time
                 /\ outcome' = [outcome EXCEPT ![user_id] = "ok"]
                 /\ results' = results \cup {user_id}
                 /\ trace' = trace \o <<Event("merge", user_id),
                                        Event(IF saved THEN "save" ELSE "save_failed",
                                              user_id)>>
    /\ todo' = Tail(todo)
    /\ inflight' = NoInflight
    /\ pc' = "Enriching"
    /\ UNCHANGED <<topic_event, mgr_event, memVars, schedVars, graphVars, wiring, daily_log, messages_by_user, runs, run_status,
                   merged, observed, reads>>

-----------------------------------------------------------------------------
(* NightlyAnalysisTask.run *)

\* run, from its start to the call of run_nightly_analysis: the messages are
\* collected; with none the run goes on to the cache and the log; with some,
\* self._analyzer.run_nightly_analysis is looked up, which raises
\* AttributeError for an analyzer without the method, caught by the outer
\* except clause of run, which ends the run.
StartRunOf(limit) ==
    /\ pc = "Idle"
    /\ runs < limit
    /\ daily_log' = [i \in 1..Len(daily_log) |->
                        [daily_log[i] EXCEPT !.collected = @ + 1]]
    /\ LET collected == get_yesterday_messages
       IN /\ messages_by_user' = collected
          /\ IF collected = <<>>
               THEN /\ pc' = "Invalidating"
                    /\ run_status' = "running"
                    /\ todo' = <<>>
                    /\ runs' = runs
               ELSE IF ~wiring.analyzer_loop
                 THEN /\ pc' = "Done"
                      /\ run_status' = "error"
                      /\ todo' = <<>>
                      /\ runs' = runs
                 ELSE /\ pc' = "Enriching"
                      /\ run_status' = "running"
                      /\ todo' = collected
                      /\ runs' = runs
    /\ outcome' = [u \in Users \cup {BOT_USER_ID} |-> "none"]
    /\ results' = {}
    /\ trace' = <<Event("collect", 0)>>
    /\ merged' = NoGraphs
    /\ UNCHANGED <<topic_event, mgr_event, memVars, schedVars, graphVars, observed, reads, inflight, now, wiring, cache, durable>>

\* a run of the nightly task starts, while fewer than MaxRuns have ended
StartRun == StartRunOf(MaxRuns)

\* run_nightly_analysis returns its results to run
ReturnResults ==
    /\ pc = "Enriching"
    /\ todo = <<>>
    /\ pc' = "Invalidating"
    /\ UNCHANGED <<topic_event, mgr_event, memVars, schedVars, graphVars, liveVars, inflight, now, wiring, daily_log, cache, durable, runs,
                   run_status, messages_by_user, todo, outcome, results, trace>>

\* "if self._knowledge_manager: self._knowledge_manager.clear_cache()"
Invalidate ==
    /\ pc = "Invalidating"
    /\ pc' = "Pruning"
    /\ IF wiring.knowledge_manager
         THEN /\ cache' = NoGraphs
              /\ trace' = Append(trace, Event("invalidate", 0))
         ELSE UNCHANGED <<cache, trace>>
    /\ UNCHANGED <<topic_event, mgr_event, memVars, schedVars, graphVars, liveVars, inflight, now, wiring, daily_log, durable, runs,
                   run_status, messages_by_user, todo, outcome, results>>

\* "if self._memory: self._memory.clear_daily_log()", and run returns
Prune ==
    /\ pc = "Pruning"
    /\ pc' = "Done"
    /\ run_status' = "completed"
    /\ runs' = runs
    /\ IF wiring.memory
         THEN /\ daily_log' = clear_daily_log(daily_log)
              /\ mem_event' = PruneEvent(daily_log)
              /\ trace' = Append(trace, Event("prune", 0))
         ELSE UNCHANGED <<daily_log, mem_event, trace>>
    /\ UNCHANGED <<topic_event, mgr_event, short_term, appended, long_term, schedVars, graphVars, liveVars, inflight, now, wiring, cache, durable,
                   messages_by_user, todo, outcome, results>>

\* run returns to its caller, by its last statement or from its outer except
\* clause; the history of the run is dropped
Return ==
    /\ pc = "Done"
    /\ pc' = "Idle"
    /\ runs' = runs + 1
    /\ run_status' = "idle"
    /\ messages_by_user' = <<>>
    /\ todo' = <<>>
    /\ outcome' = [u \in Users \cup {BOT_USER_ID} |-> "none"]
    /\ results' = {}
    /\ trace' = <<>>
    /\ merged' = NoGraphs
    /\ UNCHANGED <<topic_event, mgr_event, memVars, schedVars, graphVars, observed, reads, inflight, now, wiring, daily_log,
                   cache, durable>>

-----------------------------------------------------------------------------
(* SpecNightly: runs of the nightly task, for every way of constructing it *)

InitNightly ==
    /\ InitGraph
    /\ now = 0
    /\ \E w \in Wirings : NightlyAtRest(w)
    /\ SchedulerAtRest

\* the analysis of a failed enrichment: nothing was parsed
NoPayload == [facts |-> <<>>, interests |-> <<>>, interests_type |-> "dict"]

\* the payload every successful enrichment returns in the runs followed for
\* their steps: a fact and an interest
NightlyPayload ==
    [facts |-> <<"f1">>, interests |-> << <<"gaming", <<"dota">> >> >>,
     interests_type |-> "dict"]

NextNightly ==
    \/ \E user_id \in Users \cup {BOT_USER_ID} : AddMessage(user_id, FALSE, TRUE, TRUE)
    \/ Midnight
    \/ StartRun
    \/ \E payload \in {NightlyPayload}, load_ok \in BOOLEAN :
            AnalyzeUser("ok", payload, load_ok)
    \/ \E enrichment \in EnrichmentFailures :
            \* no payload is parsed and no graph is loaded
            AnalyzeUser(enrichment, NoPayload, TRUE)
    \/ \E save_ok \in BOOLEAN : FinishMerge(save_ok)
    \/ ReturnResults
    \/ Invalidate
    \/ Prune
    \/ Return

SpecNightly == InitNightly /\ [][NextNightly]_vars

-----------------------------------------------------------------------------
(* SpecRuns: consecutive runs of the nightly task, with an analyzer that has *)
(* the run loop and a task that has the memory, while messages are appended  *)

\* the number of runs followed
MaxNights == 2

InitRuns ==
    /\ InitGraph
    /\ now = 0
    /\ \E w \in Wirings :
          /\ w.analyzer_loop /\ w.memory /\ w.knowledge_manager
          /\ NightlyAtRest(w)
    /\ SchedulerAtRest

\* a run starts, while fewer than MaxNights have ended
NextNight == StartRunOf(MaxNights)

NextRuns ==
    \/ \E user_id \in Users \cup {BOT_USER_ID} : AddMessage(user_id, FALSE, TRUE, TRUE)
    \/ Midnight
    \/ NextNight
    \/ \E load_ok \in {TRUE} : AnalyzeUser("ok", NightlyPayload, load_ok)
    \/ \E save_ok \in {TRUE} : FinishMerge(save_ok)
    \/ ReturnResults
    \/ Invalidate
    \/ Prune
    \/ Return

SpecRuns == InitRuns /\ [][NextRuns]_vars

-----------------------------------------------------------------------------
(* SpecLive: live chat turns reading the graphs around and during nightly runs *)

\* variant in which the event loop can run a handler at any point of the run
Suspended_anywhere(p) == TRUE

\* The positions at which the event loop can run a chat handler: the task is
\* not running, or run is suspended in "await self._bot.send_message" after
\* run_nightly_analysis has returned (when set_bot was called).  Between
\* get_user_graph and the return of analyze_user_messages there is no await,
\* and requests.post blocks the loop.
Suspended(p) == p \in {"Idle", "Invalidating"}

\* a chat turn: get_relevant_context_for_message calls get_user_graph, which
\* caches the graph it returns, and formats it; nothing is raised
LiveRead(user_id, load_ok) ==
    /\ Suspended(pc)
    /\ reads < MaxReads
    /\ reads' = reads + 1
    /\ LET g == get_user_graph(user_id, load_ok)
       IN /\ cache' = Put(cache, user_id, g)
          /\ observed' =
                [user    |-> user_id,
                 graph   |-> g,
                 pc      |-> pc,
                 miss    |-> user_id \notin DOMAIN cache,
                 had_doc |-> wiring.db /\ user_id \in DOMAIN durable,
                 doc     |-> IF user_id \in DOMAIN durable
                               THEN durable[user_id]
                               ELSE ToDict(EmptyGraph),
                 load_ok |-> load_ok,
                 allowed |-> IF user_id \in DOMAIN merged
                               THEN {merged[user_id].pre, merged[user_id].post}
                               ELSE {}]
    /\ UNCHANGED <<topic_event, mgr_event, memVars, schedVars, graphVars, now, wiring, daily_log, durable, pc, runs, run_status,
                   messages_by_user, todo, outcome, results, trace, inflight, merged>>

\* a task with the nightly loop, a memory and a db, with or without the manager
InitLive ==
    /\ InitGraph
    /\ now = 0
    /\ \E w \in Wirings :
          /\ w.analyzer_loop /\ w.memory /\ w.db
          /\ NightlyAtRest(w)
    /\ SchedulerAtRest

NextLive ==
    \/ \E user_id \in Users : AddMessage(user_id, FALSE, TRUE, TRUE)
    \/ StartRun
    \/ \E enrichment \in {"ok", "bad_json"}, payload \in NightPayloads,
          load_ok \in BOOLEAN :
            AnalyzeUser(enrichment, payload, load_ok)
    \/ \E save_ok \in BOOLEAN : FinishMerge(save_ok)
    \/ ReturnResults
    \/ Invalidate
    \/ Prune
    \/ Return
    \/ \E user_id \in Users, load_ok \in BOOLEAN : LiveRead(user_id, load_ok)

SpecLive == InitLive /\ [][NextLive]_vars

-----------------------------------------------------------------------------
(* SpecScheduler: the TaskScheduler with the nightly job registered *)

\* "del d[k]" of a dict
Remove(d, k) == [x \in DOMAIN d \ {k} |-> d[x]]

\* what the scheduler actions leave alone
notSched == <<graphVars, now, nightVars, liveVars, memVars, mgr_event, topic_event>>

\* time passes: to a later minute of the day (days = 0) or into the next day
Tick(days, minute) ==
    /\ \/ days = 0 /\ minute > clock.minute
       \/ days = 1 /\ clock.day < MaxSchedDay
    /\ clock' = [day |-> clock.day + days, minute |-> minute]
    /\ fired_today' = IF days = 0 THEN fired_today ELSE 0
    /\ completed_today' = IF days = 0 THEN completed_today ELSE FALSE
    /\ last_event' = SchedEvent("tick")
    /\ UNCHANGED <<running, task_handle, loops, starts, last_run, notSched>>

\* variant of start without the "if self._running: return"
Start_unguarded ==
    /\ starts < MaxStarts
    /\ running' = TRUE
    /\ starts' = starts + 1
    /\ task_handle' = starts + 1
    /\ loops' = Put(loops, starts + 1, [state |-> "sleeping", now |-> clock])
    /\ last_event' = [SchedEvent("start") EXCEPT
                          !.tasks = Cardinality(DOMAIN loops) + 1]
    /\ UNCHANGED <<clock, last_run, fired_today, completed_today, notSched>>

\* TaskScheduler.start: nothing when already running, else a new polling task
Start ==
    /\ starts < MaxStarts
    /\ IF running
         THEN /\ last_event' = [SchedEvent("start_while_running") EXCEPT
                                   !.tasks = Cardinality(DOMAIN loops)]
              /\ UNCHANGED <<running, starts, task_handle, loops>>
         ELSE /\ running' = TRUE
              /\ starts' = starts + 1
              /\ task_handle' = starts + 1
              /\ loops' = Put(loops, starts + 1, [state |-> "sleeping", now |-> clock])
              /\ last_event' = [SchedEvent("start") EXCEPT
                                   !.tasks = Cardinality(DOMAIN loops) + 1]
    /\ UNCHANGED <<clock, last_run, fired_today, completed_today, notSched>>

\* TaskScheduler.stop: the handle's task is cancelled; CancelledError is raised
\* at the await where the task is suspended (the sleep, or an await inside the
\* callback in flight) and is not an Exception, so the task runs no further
\* statement of the loop
Stop ==
    /\ running' = FALSE
    /\ task_handle' = 0
    /\ loops' = IF task_handle # 0 THEN Remove(loops, task_handle) ELSE loops
    /\ last_event' = [SchedEvent("stop") EXCEPT
                         !.invoked = (task_handle # 0 /\ task_handle \in DOMAIN loops
                                        /\ loops[task_handle].state = "calling")]
    /\ UNCHANGED <<clock, starts, last_run, fired_today, completed_today, notSched>>

\* one iteration of "while self._running" of _run_scheduler by a polling task
\* that is not inside a callback: the loop ends when _running is false, else
\* the clock is read and the job's callback is awaited when the time is in
\* the window and the job has not run today; last_run is set to the time read
\* when the callback returns
Poll(id, result) ==
    /\ id \in DOMAIN loops
    /\ loops[id].state = "sleeping"
    /\ fired_today < MaxFired
    /\ IF ~running
         THEN /\ loops' = Remove(loops, id)
              /\ last_event' = SchedEvent("loop_exit")
              /\ UNCHANGED <<last_run, fired_today, completed_today>>
         ELSE LET due == /\ InWindow(RunHour, RunMinute, clock.minute)
                         /\ NotRunToday(last_run, clock)
              IN /\ last_event' = [SchedEvent("poll") EXCEPT
                                      !.minute = clock.minute,
                                      !.fresh = ~completed_today,
                                      !.fired = due,
                                      !.tasks = starts]
                 /\ fired_today' = IF due THEN fired_today + 1 ELSE fired_today
                 /\ completed_today' = (completed_today \/ (due /\ result = "ok"))
                 /\ last_run' = IF due /\ result = "ok" THEN clock ELSE last_run
                 /\ loops' = IF due /\ result = "suspends"
                               THEN [loops EXCEPT ![id] =
                                        [state |-> "calling", now |-> clock]]
                               ELSE loops
    /\ UNCHANGED <<clock, running, task_handle, starts, notSched>>

\* a callback that was suspended returns or raises inside the polling task
CallbackEnds(id, result) ==
    /\ id \in DOMAIN loops
    /\ loops[id].state = "calling"
    /\ last_run' = IF result = "ok" THEN loops[id].now ELSE last_run
    /\ loops' = [loops EXCEPT ![id].state = "sleeping"]
    /\ completed_today' = (completed_today \/ result = "ok")
    /\ last_event' = SchedEvent("callback_ends")
    /\ UNCHANGED <<clock, running, task_handle, starts, fired_today, notSched>>

\* variant of run_task_now that records last_run whatever the callback does
run_task_now_records(name, result, lr, t) ==
    IF name # JobName
      THEN [ret |-> FALSE, invoked |-> FALSE, last_run |-> lr]
      ELSE [ret |-> result = "ok", invoked |-> TRUE, last_run |-> t]

\* run_task_now(name) at time t with last_run lr: what it returns, whether
\* the callback was awaited, and last_run after it
run_task_now(name, result, lr, t) ==
    IF name # JobName
      THEN [ret |-> FALSE, invoked |-> FALSE, last_run |-> lr]
      ELSE [ret |-> result = "ok", invoked |-> TRUE,
            last_run |-> IF result = "ok" THEN t ELSE lr]

\* TaskScheduler.run_task_now
RunTaskNow(name, result) ==
    /\ LET r == run_task_now(name, result, last_run, clock)
       IN /\ last_run' = r.last_run
          /\ completed_today' = (completed_today \/ r.ret)
          /\ last_event' = [SchedEvent("run_task_now") EXCEPT
                               !.name = name, !.result = result, !.ret = r.ret,
                               !.invoked = r.invoked,
                               !.kept = (r.last_run = last_run),
                               !.stamped = (r.last_run = clock)]
    /\ UNCHANGED <<clock, running, task_handle, loops, starts, fired_today, notSched>>

InitScheduler == InitInterest

NextScheduler ==
    \/ \E days \in {0, 1}, minute \in ClockPoints : Tick(days, minute)
    \/ Start
    \/ Stop
    \/ \E id \in 1..MaxStarts, result \in CallbackOutcomes : Poll(id, result)
    \/ \E id \in 1..MaxStarts, result \in {"ok", "raises"} : CallbackEnds(id, result)
    \/ \E name \in TaskNames, result \in {"ok", "raises"} : RunTaskNow(name, result)

SpecScheduler == InitScheduler /\ [][NextScheduler]_vars

-----------------------------------------------------------------------------
(* SpecMemory: messages appended to Memory, midnights, and prunings *)

\* Memory after construction, with Firebase available or not
InitMemory ==
    /\ InitGraph
    /\ now = 0
    /\ \E w \in {MainWiring, [MainWiring EXCEPT !.db = FALSE]} : NightlyAtRest(w)
    /\ SchedulerAtRest

NextMemory ==
    \/ \E user_id \in Users \cup {BOT_USER_ID}, crossed, save_ok, user_ok \in BOOLEAN :
          AddMessage(user_id, crossed, save_ok, user_ok)
    \/ Midnight
    \/ ClearDailyLog

SpecMemory == InitMemory /\ [][NextMemory]_vars

-----------------------------------------------------------------------------
(* SpecManager: graphs obtained from the KnowledgeGraphManager, changed,   *)
(* saved, dropped from the cache and loaded again                           *)

\* graphs edited in SpecManager hold interests of one category
ManagerCategory == "gaming"

\* the user whose graph is followed in SpecManager
ManagerUsers == {1}

\* the facts lists merged into them
ManagerFacts == {<<"f1">>, <<"f2", "f1">>}

\* the manager after construction, with a Firestore client or None
InitManager ==
    /\ InitGraph
    /\ now = 0
    /\ \E w \in {MainWiring, [MainWiring EXCEPT !.db = FALSE]} : NightlyAtRest(w)
    /\ SchedulerAtRest

NextManager ==
    \/ \E user_id \in ManagerUsers, load \in LoadOutcomes : GetUserGraph(user_id, load)
    \/ \E user_id \in ManagerUsers, name \in Names, status \in Statuses :
          EditInterest(user_id, ManagerCategory, name, status)
    \/ \E user_id \in ManagerUsers, facts \in ManagerFacts : EditFacts(user_id, facts)
    \/ \E user_id \in ManagerUsers, write_ok \in BOOLEAN : SaveUserGraph(user_id, write_ok)
    \/ ClearCache
    \/ \E user_id \in ManagerUsers, how \in Damages : DamageDocument(user_id, how)

SpecManager == InitManager /\ [][NextManager]_vars

-----------------------------------------------------------------------------
(* SpecDetect: detect_topics called on texts *)

InitDetect == InitInterest

NextDetect == \E text \in Texts : DetectTopics(text)

SpecDetect == InitDetect /\ [][NextDetect]_vars

-----------------------------------------------------------------------------
(* SpecContext: get_relevant_context called on graphs with facts and        *)
(* interests of several categories                                          *)

\* the interest name of the graphs of SpecContext
ContextNames == {"dota"}

\* the sets of topics get_relevant_context is called with
TopicSets ==
    {{}, {"gaming"}, {General}, {"gaming", "food"}, {"food", General}}

\* the values of typical_topics
TypicalTopics == {<<>>, <<"games">>}

InitContext == InitInterest

NextContext ==
    \/ \E user_id \in ManagerUsers : GetUserGraph(user_id, "ok")
    \/ \E user_id \in ManagerUsers, category \in Categories, name \in ContextNames,
          status \in Statuses :
          EditInterest(user_id, category, name, status)
    \/ \E user_id \in ManagerUsers : EditFacts(user_id, <<"f1">>)
    \/ \E user_id \in ManagerUsers, topics \in TopicSets,
          typical_topics \in TypicalTopics :
          \E order \in Orders(topics) :
              GetRelevantContext(user_id, topics, order, typical_topics)

SpecContext == InitContext /\ [][NextContext]_vars

-----------------------------------------------------------------------------
(* SpecRecent: the deque read by get_recent and bot_responded_recently while *)
(* messages are appended and the daily log is pruned                         *)

InitRecent == InitInterest

NextRecent ==
    \/ \E user_id \in Users \cup {BOT_USER_ID}, crossed \in BOOLEAN :
          AddMessage(user_id, crossed, TRUE, TRUE)
    \/ Midnight
    \/ ClearDailyLog
    \/ \E count \in 0..MaxCount : GetRecent(count)
    \/ \E within_last_n \in 0..MaxCount : BotRespondedRecently(within_last_n)

SpecRecent == InitRecent /\ [][NextRecent]_vars

-----------------------------------------------------------------------------
(* Claims about add_interest, checked under SpecInterest *)

\* an interest key is a category with a lower-cased name
Keys == {Lower(n) : n \in Names}

\* the calls made for a key, in call order
KeyCalls(category, key) ==
    SelectSeq(calls, LAMBDA c : c.category = category /\ Lower(c.name) = key)

\* the entries of a key, in list order
KeyEntries(category, key) ==
    SelectSeq(graph.interests[category], LAMBDA e : Lower(e.name) = key)

CurrentOf(entries) == {i \in 1..Len(entries) : entries[i].current}

\* C1: after any sequence of add_interest calls on an initially empty graph,
\* every category holds at most one current entry per name, names compared
\* case-insensitively.
C1_AtMostOneCurrent ==
    \A category \in Categories, key \in Keys :
        Cardinality(CurrentOf(KeyEntries(category, key))) <= 1

\* a key whose status changed twice, under names of both letter cases
C1_Witness ==
    \E category \in Categories :
        LET ke == KeyEntries(category, "dota")
        IN /\ Len(ke) >= 3
           /\ {ke[i].name : i \in 1..Len(ke)} = {"dota", "Dota"}
           /\ Cardinality(CurrentOf(ke)) = 1

\* C2: add_interest(cat, name, s1) then add_interest(cat, name, s2), s1 # s2,
\* on a graph with no prior entry for the name: exactly one entry of the name
\* is current, with status s2, and exactly one other entry exists, not
\* current, with status s1.
C2_MindChange ==
    \A category \in Categories, key \in Keys :
        LET kc == KeyCalls(category, key)
            ke == KeyEntries(category, key)
        IN (Len(kc) = 2 /\ kc[1].status # kc[2].status) =>
              /\ Len(ke) = 2
              /\ Cardinality(CurrentOf(ke)) = 1
              /\ \A i \in 1..Len(ke) :
                    IF ke[i].current THEN ke[i].status = kc[2].status
                                     ELSE ke[i].status = kc[1].status

\* a key called twice with different statuses, among calls for other keys
C2_Witness ==
    \E category \in Categories, key \in Keys :
        LET kc == KeyCalls(category, key)
        IN /\ Len(kc) = 2
           /\ kc[1].status # kc[2].status
           /\ Len(calls) > 2
           /\ Len(KeyEntries(category, key)) = 2

\* C3: add_interest(cat, name, s) called k >= 1 times with the same status on
\* a graph with no prior entry for the name leaves exactly one entry for the
\* name, current, with status s and added_at the time of the latest call;
\* names that differ only in letter case are the same name.
C3_SameStatusIdempotent ==
    \A category \in Categories, key \in Keys :
        LET kc == KeyCalls(category, key)
            ke == KeyEntries(category, key)
        IN (Len(kc) >= 1 /\ \A i \in 1..Len(kc) : kc[i].status = kc[1].status) =>
              /\ Len(ke) = 1
              /\ ke[1].current
              /\ ke[1].status = kc[1].status
              /\ ke[1].added_at = kc[Len(kc)].at

\* a key called three times with one status under names of both letter cases
C3_Witness ==
    \E category \in Categories :
        LET kc == KeyCalls(category, "dota")
        IN /\ Len(kc) >= 3
           /\ \A i \in 1..Len(kc) : kc[i].status = kc[1].status
           /\ {kc[i].name : i \in 1..Len(kc)} = {"dota", "Dota"}
           /\ Len(KeyEntries(category, "dota")) = 1

\* C4: add_interest never removes or reorders entries: the list before the
\* call is a prefix of the list after it as to names and statuses; an existing
\* entry changes only by current going from true to false when it is
\* superseded, or by added_at being refreshed on a same-status repeat; the
\* other categories and quick_facts are unchanged.
C4_Frame ==
    [][calls' # calls =>
        LET c == calls'[Len(calls')]
            old == graph.interests[c.category]
            new == graph'.interests[c.category]
        IN /\ graph'.quick_facts = graph.quick_facts
           /\ \A other \in Categories \ {c.category} :
                 graph'.interests[other] = graph.interests[other]
           /\ Len(new) >= Len(old)
           /\ \A i \in 1..Len(old) :
                 /\ new[i].name = old[i].name
                 /\ new[i].status = old[i].status
                 /\ new[i].current # old[i].current =>
                       /\ old[i].current /\ ~new[i].current
                       /\ new[i].added_at = old[i].added_at
                       /\ Len(new) = Len(old) + 1
                       /\ new[Len(new)] = NewEntry(c.name, c.status, c.at)
                       /\ Lower(old[i].name) = Lower(c.name)
                       /\ old[i].status # c.status
                 /\ new[i].added_at # old[i].added_at =>
                       /\ Len(new) = Len(old)
                       /\ new[i].current /\ old[i].current
                       /\ new[i].added_at = c.at
                       /\ Lower(old[i].name) = Lower(c.name)
                       /\ old[i].status = c.status
    ]_vars

\* a category in which one entry was superseded and one call was a repeat,
\* while the other category holds entries too
C4_Witness ==
    \E category \in Categories :
        LET entries == graph.interests[category]
            made == SelectSeq(calls, LAMBDA c : c.category = category)
        IN /\ \E i \in 1..Len(entries) : ~entries[i].current
           /\ Len(made) > Len(entries)
           /\ \E other \in Categories \ {category} : graph.interests[other] # <<>>

-----------------------------------------------------------------------------
(* Claims about the merge of facts, checked under SpecMerge *)

\* the facts of the last payload that quick_facts did not hold before the
\* merge, in payload order
NewInPayload == SelectSeq(last_payload, LAMBDA f : f \notin Range(last_before))

\* the last n elements of seq, all of it when it is shorter
LastElements(seq, n) ==
    LET drop == IF Len(seq) > n THEN Len(seq) - n ELSE 0
    IN [i \in 1..(Len(seq) - drop) |-> seq[i + drop]]

\* C5: after any sequence of fact merges quick_facts has at most 10 entries,
\* and the list after a merge is the last 10 elements of the previous list
\* followed by the newly added facts in payload order, so that the oldest
\* entries are the ones dropped.
C5_Capacity ==
    /\ Len(graph.quick_facts) <= QuickFactsLimit
    /\ merges > 0 =>
          /\ added_facts = NewInPayload
          /\ graph.quick_facts = LastElements(last_before \o added_facts, QuickFactsLimit)

\* a merge that exceeded the capacity and dropped the oldest entry
C5_Witness ==
    /\ merges > 0
    /\ last_before # <<>>
    /\ Len(last_before) + Len(added_facts) > QuickFactsLimit
    /\ Len(graph.quick_facts) = QuickFactsLimit
    /\ last_before[1] \notin Range(graph.quick_facts)
    /\ graph.quick_facts[Len(graph.quick_facts)] = added_facts[Len(added_facts)]

\* C6: after any sequence of fact merges from an empty graph, quick_facts
\* never contains two entries that are equal when compared case-insensitively.
C6_NoCaseInsensitiveDuplicate ==
    \A i, j \in 1..Len(graph.quick_facts) :
        i # j => Lower(graph.quick_facts[i]) # Lower(graph.quick_facts[j])

\* C7: after any sequence of fact merges from an empty graph, quick_facts
\* never contains the same string twice, also when one payload lists the same
\* fact more than once.
C7_NoDuplicateString ==
    \A i, j \in 1..Len(graph.quick_facts) :
        i # j => graph.quick_facts[i] # graph.quick_facts[j]

-----------------------------------------------------------------------------
(* Claims about the nightly task, checked under SpecNightly *)

\* positions of the current run's history where step ev happened
EventsOf(ev) == {i \in DOMAIN trace : trace[i].ev = ev}

\* the steps that belong to collecting and to the per-user loop
PerUserSteps ==
    {"collect", "enrich", "enrich_failed", "merge", "merge_failed", "save", "save_failed"}

\* a run has ended and no other has started
RunEnded == pc = "Done"

\* position of a key in the collected dict
PositionOf(user_id) ==
    CHOOSE i \in DOMAIN messages_by_user : messages_by_user[i] = user_id

\* C8: in the task as main.py constructs it, the steps of a run come in the
\* order Collect, Enrich/Merge/Save per user, Invalidate, Prune: the cache is
\* invalidated at most once, every collecting and per-user step of the run
\* precedes the invalidation, and the daily log is pruned only after the cache
\* was invalidated.
C8_StepOrder ==
    IsMainWiring(wiring) =>
        /\ Cardinality(EventsOf("invalidate")) <= 1
        /\ \A i \in EventsOf("invalidate") : \A j \in DOMAIN trace :
              trace[j].ev \in PerUserSteps => j < i
        /\ \A p \in EventsOf("prune") : \E i \in EventsOf("invalidate") : i < p

\* C9: in the task as main.py constructs it, a run that has ended has
\* invalidated the cache exactly once and pruned the daily log exactly once.
C9_RunInvalidatesAndPrunesOnce ==
    (IsMainWiring(wiring) /\ RunEnded) =>
        /\ Cardinality(EventsOf("invalidate")) = 1
        /\ Cardinality(EventsOf("prune")) = 1

-----------------------------------------------------------------------------
(* Claims about live reads, checked under SpecLive *)

\* the last live read was the first read of a user after the cache was
\* invalidated behind a run that had saved the user's graph: the task was
\* idle, the user had a document in the store and no entry in the cache (only
\* clear_cache removes the entry that the save left)
ReadAfterInvalidate ==
    observed.pc = "Idle" /\ observed.miss /\ observed.had_doc

\* C11 (as stated): after a nightly run has merged and saved a user's graph and
\* the cache has been invalidated, the next get_user_graph for the user returns
\* a graph equal to the document in the durable store.
C11_ReturnsDocument ==
    ReadAfterInvalidate => ToDict(observed.graph) = observed.doc

\* C11 (amended): after a nightly run has merged and saved a user's graph and
\* the cache has been invalidated, the next get_user_graph for the user returns
\* a graph equal to the document in the durable store when the read of the
\* store succeeds, and a new empty graph when that read raises; it never
\* returns an earlier cached copy.
C11_CacheCoherence ==
    ReadAfterInvalidate =>
        IF observed.load_ok
          THEN ToDict(observed.graph) = observed.doc
          ELSE observed.graph = EmptyGraph

\* a read after an invalidating run that returned the saved facts
C11_Witness ==
    /\ ReadAfterInvalidate
    /\ wiring.knowledge_manager
    /\ observed.load_ok
    /\ observed.graph.quick_facts # <<>>
    /\ ToDict(observed.graph) = observed.doc

\* the last live read came while a run was in flight that had begun to merge a
\* payload into the graph of the user read
ReadDuringRun ==
    observed.pc \notin {"none", "Idle"} /\ observed.allowed # {}

C12_Witness ==
    /\ ReadDuringRun
    /\ observed.pc = "Invalidating"
    /\ Cardinality(observed.allowed) = 2
    /\ Content(observed.graph) \in observed.allowed
    /\ observed.graph.quick_facts # <<>>

-----------------------------------------------------------------------------
(* Claims about the scheduler, checked under SpecScheduler *)

\* the minutes of the day within one minute of the job's run time
NearRunTime == ((RunHour * 60 + RunMinute) - 1) .. ((RunHour * 60 + RunMinute) + 1)

\* C13: on every calendar day the polling loop invokes the job's callback at
\* most once, for any number of polls in the window and however the callback
\* ends.
C13_AtMostOncePerDay == fired_today <= 1

C15_Lifecycle ==
    /\ Cardinality(DOMAIN loops) <= 1
    /\ last_event.op = "start_while_running" => last_event.tasks = Cardinality(DOMAIN loops)
    /\ ~running => (DOMAIN loops = {} /\ task_handle = 0)
    /\ running => DOMAIN loops = {task_handle}
    /\ last_event.op = "stop" => ~running
    /\ last_event.op = "start" => (running /\ Cardinality(DOMAIN loops) = 1)
    /\ (last_event.op = "poll" /\ last_event.fired) => running

\* the polling task created by a start that followed a stop has invoked the job
C15_Witness ==
    /\ last_event.op = "poll"
    /\ last_event.fired
    /\ last_event.tasks = 2
    /\ running

\* C16: run_task_now with a name that is not registered returns false, awaits
\* no callback and leaves last_run as it was; with the registered name it
\* awaits the callback once and returns true exactly when the callback
\* returns, setting last_run to the current time in that case and leaving it
\* as it was when the callback raises.
C16_RunTaskNow ==
    last_event.op = "run_task_now" =>
        IF last_event.name # JobName
          THEN ~last_event.ret /\ ~last_event.invoked /\ last_event.kept
          ELSE /\ last_event.invoked
               /\ last_event.ret <=> (last_event.result = "ok")
               /\ last_event.result = "ok" => last_event.stamped
               /\ last_event.result # "ok" => last_event.kept

\* a manual run whose callback raised, at a time other than the last run's
C16_Witness ==
    /\ last_event.op = "run_task_now"
    /\ last_event.name = JobName
    /\ last_event.result = "raises"
    /\ ~last_event.ret
    /\ last_event.kept
    /\ ~last_event.stamped

-----------------------------------------------------------------------------
(* Claims about Memory, checked under SpecMemory *)

\* the sequence numbers of the messages of a list
Seqs(list) == [i \in 1..Len(list) |-> list[i].seq]

\* C17: every message in the daily log had, when add_message inserted it, a
\* timestamp of the date read at the insertion; a message whose timestamp is of
\* another date is not inserted into the daily log, and every message is
\* pushed to the short-term deque.
C17_InsertedOnItsDay ==
    /\ \A i \in 1..Len(daily_log) : daily_log[i].same_day
    /\ mem_event.op = "add_message" =>
          /\ short_term # <<>>
          /\ short_term[Len(short_term)].seq = appended
          /\ mem_event.crossed => \A i \in 1..Len(daily_log) : daily_log[i].seq # appended
          /\ ~mem_event.crossed =>
                (daily_log # <<>> /\ daily_log[Len(daily_log)].seq = appended)

\* a message created just before midnight: in the deque, not in the daily log
C17_Witness ==
    /\ mem_event.op = "add_message"
    /\ mem_event.crossed
    /\ short_term # <<>>
    /\ short_term[Len(short_term)].seq = appended
    /\ \A i \in 1..Len(daily_log) : daily_log[i].seq # appended

\* C18: get_daily_log returns only messages of the current day: once local
\* midnight has passed, no message appended on an earlier day is returned.
C18_OnlyCurrentDay ==
    \A i \in 1..Len(get_daily_log) : get_daily_log[i].today

\* C19: a step that removes messages from the daily log leaves exactly the
\* messages stamped at or after the last local midnight, in their order, and
\* leaves the short-term deque as it was; pruning the pruned log again would
\* change nothing, and pruning an empty log leaves it empty.
C19_Prune ==
    /\ [][ /\ mem_event'.op = "clear_daily_log" /\ mem_event' # mem_event =>
                /\ daily_log' = SelectSeq(daily_log, LAMBDA m : m.today)
                /\ short_term' = short_term
           /\ Len(daily_log') < Len(daily_log) =>
                /\ daily_log' = SelectSeq(daily_log, LAMBDA m : m.today)
                /\ short_term' = short_term ]_vars
    /\ [][ mem_event'.op = "clear_daily_log" /\ mem_event' # mem_event =>
                clear_daily_log(daily_log') = daily_log' ]_vars
    /\ [](clear_daily_log(clear_daily_log(daily_log)) = clear_daily_log(daily_log))
    /\ [](clear_daily_log(<<>>) = <<>>)

\* a pruning that removed some messages and kept others
C19_Witness ==
    /\ mem_event.op = "clear_daily_log"
    /\ mem_event.removed
    /\ mem_event.kept
    /\ short_term # <<>>

\* C20: the short-term deque never holds more than short_memory_limit
\* messages, and holds exactly the last min(short_memory_limit, total) messages
\* created, in the order of their creation.
C20_Ring ==
    /\ Len(short_term) <= short_memory_limit
    /\ LET k == IF appended < short_memory_limit THEN appended ELSE short_memory_limit
       IN Seqs(short_term) = [i \in 1..k |-> appended - k + i]

\* the deque is full and its oldest messages have been evicted, a bot response
\* among the messages kept
C20_Witness ==
    /\ Len(short_term) = short_memory_limit
    /\ appended > short_memory_limit
    /\ \E i \in 1..Len(short_term) : short_term[i].user_id = BOT_USER_ID

-----------------------------------------------------------------------------
(* Claims about the storage calls of add_message, checked under SpecMemory *)

\* C21: no message of BOT_USER_ID is passed to save_message and update_user is
\* never called for BOT_USER_ID; every add_message for a user's message made
\* while there is a storage calls save_message for the message and then
\* update_user for the user.
C21_BotNotStored ==
    /\ BOT_USER_ID \notin long_term.messages
    /\ BOT_USER_ID \notin long_term.users
    /\ mem_event.op = "add_message" =>
          /\ mem_event.user_id = BOT_USER_ID => mem_event.issued = <<>>
          /\ (mem_event.user_id # BOT_USER_ID /\ has_storage) =>
                mem_event.issued = <<"save_message", "update_user">>

\* a bot response is in the deque, and a user's message has just been saved
\* and its sender upserted
C21_Witness ==
    /\ has_storage
    /\ mem_event.op = "add_message"
    /\ mem_event.user_id \in Users
    /\ mem_event.issued = <<"save_message", "update_user">>
    /\ mem_event.user_id \in long_term.messages
    /\ mem_event.user_id \in long_term.users
    /\ \E i \in 1..Len(short_term) : short_term[i].user_id = BOT_USER_ID

\* C22: with no storage, or with a write to the storage failing, add_message
\* raises nothing and returns the message it created, and the message is in
\* the deque, and in the daily log when it is dated today, as it is when the
\* write succeeds.
C22_AppendSurvivesStorage ==
    mem_event.op = "add_message" =>
        /\ ~mem_event.raised
        /\ mem_event.returned = appended
        /\ short_term # <<>>
        /\ short_term[Len(short_term)] = [user_id |-> mem_event.user_id, seq |-> appended]
        /\ ~mem_event.crossed =>
              /\ daily_log # <<>>
              /\ daily_log[Len(daily_log)].seq = appended
              /\ daily_log[Len(daily_log)].user_id = mem_event.user_id
        /\ mem_event.crossed => \A i \in 1..Len(daily_log) : daily_log[i].seq # appended

\* a user's message whose save_message write failed: returned, in the deque
\* and in the daily log, not in the messages collection
C22_Witness ==
    /\ has_storage
    /\ mem_event.op = "add_message"
    /\ mem_event.user_id \in Users
    /\ mem_event.issued # <<>>
    /\ mem_event.user_id \notin long_term.messages
    /\ mem_event.returned = appended
    /\ short_term[Len(short_term)].seq = appended
    /\ daily_log # <<>>
    /\ daily_log[Len(daily_log)].seq = appended

-----------------------------------------------------------------------------
(* Claims about the reads of the deque, checked under SpecRecent *)

\* the last min(n, Len(list)) elements of list, oldest first
LastN(list, n) ==
    LET k == IF n < Len(list) THEN n ELSE Len(list)
    IN SubSeq(list, Len(list) - k + 1, Len(list))

\* C23: for every n >= 0, get_recent(n) returns the last min(n, size) messages
\* of the deque, oldest first, so none for n = 0.
C23_RecentWindow ==
    mem_event.op = "get_recent" =>
        mem_event.result = LastN(short_term, mem_event.count)

\* C24: for every N >= 0, bot_responded_recently(N) is true exactly when one
\* of the last N messages of the deque is of BOT_USER_ID.
C24_RespondedRecently ==
    mem_event.op = "bot_responded_recently" =>
        (mem_event.answer <=>
            \E i \in 1..Len(LastN(short_term, mem_event.count)) :
                LastN(short_term, mem_event.count)[i].user_id = BOT_USER_ID)

-----------------------------------------------------------------------------
(* Claims about the KnowledgeGraphManager, checked under SpecManager *)

\* the last call was a get_user_graph that missed the cache
Missed == mgr_event.op = "get_user_graph" /\ ~mgr_event.hit

\* the store held a document of the user that from_dict reconstructs
ValidDocument == mgr_event.had_doc /\ Reconstructible(mgr_event.doc)

\* C25 as stated: after get_user_graph(u) the graph returned is cached for u;
\* on a hit it is the graph cached before and the store is not read; on a miss
\* with a valid persisted document it is the graph built from the document,
\* and otherwise an empty graph.
C25_ValidDocumentLoaded ==
    mgr_event.op = "get_user_graph" =>
        /\ mgr_event.user \in DOMAIN cache
        /\ cache[mgr_event.user] = mgr_event.graph
        /\ mgr_event.hit => (mgr_event.graph = mgr_event.before /\ ~mgr_event.read_store)
        /\ (Missed /\ ValidDocument) => mgr_event.graph = FromDict(mgr_event.doc)
        /\ (Missed /\ ~ValidDocument) => mgr_event.graph = EmptyGraph

\* C25 amended: as above, the graph built from the document being returned
\* when the load returns the document, and an empty graph also when the load
\* of a valid document fails.
C25_GetOrCreate ==
    mgr_event.op = "get_user_graph" =>
        /\ mgr_event.user \in DOMAIN cache
        /\ cache[mgr_event.user] = mgr_event.graph
        /\ mgr_event.hit => (mgr_event.graph = mgr_event.before /\ ~mgr_event.read_store)
        /\ (Missed /\ ValidDocument /\ mgr_event.load = "ok") =>
              mgr_event.graph = FromDict(mgr_event.doc)
        /\ (Missed /\ ~(ValidDocument /\ mgr_event.load = "ok")) =>
              mgr_event.graph = EmptyGraph

\* a graph with an interest, saved, dropped from the cache and loaded again
C25_Witness ==
    /\ Missed
    /\ ValidDocument
    /\ mgr_event.load = "ok"
    /\ mgr_event.graph = FromDict(mgr_event.doc)
    /\ mgr_event.graph.interests[ManagerCategory] # <<>>
    /\ cache[mgr_event.user] = mgr_event.graph

\* C26: when the persisted document is not a dict or from_dict raises on it,
\* or the load raises, get_user_graph raises nothing and returns and caches a
\* new empty graph.
C26_CorruptDocumentDiscarded ==
    (/\ Missed
     /\ mgr_event.read_store
     /\ \/ mgr_event.load \in {"raises", "not_dict"}
        \/ (mgr_event.had_doc /\ ~Reconstructible(mgr_event.doc))) =>
        /\ ~mgr_event.raised
        /\ mgr_event.graph = EmptyGraph
        /\ mgr_event.user \in DOMAIN cache
        /\ cache[mgr_event.user] = EmptyGraph

\* a document with an entry whose status is no InterestStatus is returned by
\* the load, and a new graph is cached
C26_Witness ==
    /\ Missed
    /\ mgr_event.had_doc
    /\ mgr_event.load = "ok"
    /\ ~Reconstructible(mgr_event.doc)
    /\ mgr_event.doc.updated_at.iso
    /\ mgr_event.graph = EmptyGraph
    /\ cache[mgr_event.user] = EmptyGraph

\* C27: save_user_graph raises nothing; it returns True exactly when the
\* document was written, the document being the graph with updated_at stamped
\* at the time of the call, and when it returns False (no db, or the write
\* fails) the durable store is as it was.
C27_SaveReportsWrite ==
    mgr_event.op = "save_user_graph" =>
        /\ ~mgr_event.raised
        /\ mgr_event.returned <=> durable # mgr_event.store_before
        /\ mgr_event.returned =>
              /\ mgr_event.user \in DOMAIN durable
              /\ durable[mgr_event.user] = ToDict(cache[mgr_event.user])
              /\ cache[mgr_event.user].updated_at = now
              /\ Content(cache[mgr_event.user]) = Content(mgr_event.before)
        /\ ~mgr_event.returned => durable = mgr_event.store_before

\* a write that fails with a db present and an earlier document in the store
C27_Witness ==
    /\ mgr_event.op = "save_user_graph"
    /\ wiring.db
    /\ ~mgr_event.returned
    /\ mgr_event.user \in DOMAIN durable
    /\ durable = mgr_event.store_before
    /\ Content(FromDict(durable[mgr_event.user])) # Content(cache[mgr_event.user])

\* C28: from_dict(to_dict(g)) equals g for every graph the manager holds:
\* the same quick_facts in the same order and, per category, the same entries
\* in the same order with the same name, status, current flag and added_at;
\* and a graph loaded from the document of a saved graph equals it.
C28_RoundTrip ==
    /\ \A u \in DOMAIN cache :
          /\ Reconstructible(ToDict(cache[u]))
          /\ FromDict(ToDict(cache[u])) = cache[u]
    /\ (Missed /\ ValidDocument /\ mgr_event.load = "ok") =>
          ToDict(mgr_event.graph) = mgr_event.doc

\* a graph with two facts, a superseded entry and a current one, loaded from
\* its document
C28_Witness ==
    /\ Missed
    /\ ValidDocument
    /\ mgr_event.load = "ok"
    /\ Len(mgr_event.graph.quick_facts) = 2
    /\ \E i, j \in 1..Len(mgr_event.graph.interests[ManagerCategory]) :
          /\ ~mgr_event.graph.interests[ManagerCategory][i].current
          /\ mgr_event.graph.interests[ManagerCategory][j].current
          /\ mgr_event.graph.interests[ManagerCategory][j].status = "dislikes"
          /\ mgr_event.graph.interests[ManagerCategory][j].added_at >
                mgr_event.graph.interests[ManagerCategory][i].added_at
    /\ ToDict(mgr_event.graph) = mgr_event.doc

-----------------------------------------------------------------------------
(* Claim about the interests of a merged payload, checked under SpecMerge *)

\* C29: after a payload with interests.pets = [name] has been merged, the
\* graph holds a current "likes" entry for name under pets (and a payload of
\* the next night carrying a dislike for it leaves a historical "likes" entry
\* and a current "dislikes" entry).
C29_PetsInterestMerged ==
    \A k \in 1..Len(last_interests) :
        last_interests[k][1] = "pets" =>
            \A n \in 1..Len(last_interests[k][2]) :
                /\ "pets" \in DOMAIN graph.interests
                /\ \E i \in 1..Len(graph.interests["pets"]) :
                      /\ graph.interests["pets"][i].name = last_interests[k][2][n]
                      /\ graph.interests["pets"][i].status = "likes"
                      /\ graph.interests["pets"][i].current

-----------------------------------------------------------------------------
(* Claim about detect_topics, checked under SpecDetect *)

\* the categories one of whose keywords occurs in the lower-cased text
Matching(text) ==
    {c \in Categories :
        \E keyword \in TOPIC_KEYWORDS[c] : Contains(keyword, LowerText(text))}

\* C30: detect_topics(text) is never empty; it is exactly {general} when no
\* keyword of any category occurs in the lower-cased text, the empty text
\* included, and otherwise it is the set of the categories with a matching
\* keyword, without general.
C30_DetectTopics ==
    /\ detect_topics(<<>>) = {General}
    /\ topic_event.called =>
          /\ topic_event.detected # {}
          /\ Matching(topic_event.text) = {} => topic_event.detected = {General}
          /\ Matching(topic_event.text) # {} =>
                /\ topic_event.detected = Matching(topic_event.text)
                /\ General \notin topic_event.detected

\* a text in upper and lower case with keywords of two categories
C30_Witness ==
    /\ topic_event.called
    /\ topic_event.text = <<"k", "f", "C", "s">>
    /\ topic_event.detected = {"gaming", "food"}

-----------------------------------------------------------------------------
(* Claim about get_relevant_context, checked under SpecContext *)

\* the parts of the context returned last that list interests
InterestLines ==
    SelectSeq(mgr_event.context, LAMBDA part : part.kind = "interests")

\* the graph has a current interest in one of the topics
HasCurrentIn(g, topics) ==
    \E c \in topics \cap DOMAIN g.interests :
        \E i \in 1..Len(g.interests[c]) : g.interests[c][i].current

\* C31: get_relevant_context(topics) lists no entry with current = False and
\* no entry of a category outside topics, and returns the empty string
\* exactly when the graph has no quick facts, no current interest in a
\* requested topic, and no typical-topics line to add.
C31_RelevantContext ==
    mgr_event.op = "get_relevant_context" =>
        /\ \A k \in 1..Len(InterestLines) :
              /\ InterestLines[k].category \in mgr_event.topics
              /\ InterestLines[k].category \in DOMAIN mgr_event.graph.interests
              /\ \A n \in 1..Len(InterestLines[k].items) :
                    \E i \in 1..Len(mgr_event.graph.interests[InterestLines[k].category]) :
                       LET entry == mgr_event.graph.interests[InterestLines[k].category][i]
                       IN /\ entry.current
                          /\ entry.name = InterestLines[k].items[n].name
                          /\ (entry.status = "likes") <=>
                                (InterestLines[k].items[n].status_text = "likes it")
        /\ mgr_event.context = <<>> <=>
              /\ mgr_event.graph.quick_facts = <<>>
              /\ ~HasCurrentIn(mgr_event.graph, mgr_event.topics)
              /\ ~(mgr_event.typical_topics # <<>> /\ General \in mgr_event.topics)

\* a graph with a superseded and a current entry under a requested category
\* and a current entry under a category that is not requested
C31_Witness ==
    /\ mgr_event.op = "get_relevant_context"
    /\ mgr_event.topics = {"gaming"}
    /\ \E i \in 1..Len(mgr_event.graph.interests["gaming"]) :
          ~mgr_event.graph.interests["gaming"][i].current
    /\ \E i \in 1..Len(mgr_event.graph.interests["food"]) :
          mgr_event.graph.interests["food"][i].current
    /\ Len(InterestLines) = 1
    /\ Len(InterestLines[1].items) = 1
    /\ InterestLines[1].items[1].status_text = "does not like"

-----------------------------------------------------------------------------
(* Claims about what a run collects and analyses, checked under SpecNightly *)

\* C32: when the durable store is unavailable, the messages a run collects from
\* the daily log all lie within the target day: none of them was stamped at or
\* after today's local midnight.
C32_FallbackOnlyTargetDay ==
    [][(pc = "Idle" /\ pc' # "Idle" /\ ~wiring.db)
         => \A i \in 1..Len(daily_log) :
               daily_log[i].user_id \in Range(messages_by_user')
                  => ~daily_log[i].today]_vars

\* C33: in every nightly run the bot's own messages are in no user's analysis
\* set and the bot's id alone never triggers enrichment, and the transcript
\* handed to the enrichment for a user contains the bot's responses that
\* followed that user's messages in the collected log.
C33_SentinelInTranscript ==
    /\ outcome[BOT_USER_ID] \in {"none", "skipped"}
    /\ pc = "Merging" =>
          /\ BOT_USER_ID \notin Range(inflight.analysed)
          /\ (\E i, j \in 1..Len(daily_log) :
                  /\ i < j
                  /\ daily_log[i].user_id = inflight.user
                  /\ daily_log[j].user_id = BOT_USER_ID)
                => BOT_USER_ID \in Range(inflight.transcript)

-----------------------------------------------------------------------------
(* Further claims about the merge, checked under SpecMerge *)

\* the names some payload lists under category
ListedUnder(category) ==
    UNION {UNION {Range(interests[k][2]) :
                     k \in {j \in 1..Len(interests) : interests[j][1] = category}} :
              interests \in InterestPayloads}

\* C34: a payload with a category string outside the enumeration adds no
\* entry under it, and its facts and its interests of known categories are
\* all merged; the interests mapping never has a key outside the enumeration.
C34_UnknownCategorySkipped ==
    /\ DOMAIN graph.interests \subseteq Categories
    /\ \A c \in DOMAIN graph.interests : \A i \in 1..Len(graph.interests[c]) :
          graph.interests[c][i].name \in ListedUnder(c)
    /\ (merges > 0 /\ \E k \in 1..Len(last_interests) :
                         last_interests[k][1] \notin Categories) =>
          /\ added_facts = SelectSeq(last_payload, LAMBDA f : f \notin Range(last_before))
          /\ \A f \in Range(added_facts) :
                Len(added_facts) <= QuickFactsLimit => f \in Range(graph.quick_facts)
          /\ \A k \in 1..Len(last_interests) :
                last_interests[k][1] \in Categories =>
                   \A n \in 1..Len(last_interests[k][2]) :
                      \E i \in 1..Len(graph.interests[last_interests[k][1]]) :
                         LET entry == graph.interests[last_interests[k][1]][i]
                         IN /\ Lower(entry.name) = Lower(last_interests[k][2][n])
                            /\ entry.status = "likes"
                            /\ entry.current

\* a payload with facts, names under "pets" and names under "gaming", the
\* latter listed after "pets", has been merged
C34_Witness ==
    /\ merges > 0
    /\ added_facts # <<>>
    /\ \E k, l \in 1..Len(last_interests) :
          /\ k < l
          /\ last_interests[k][1] = "pets"
          /\ last_interests[k][2] # <<>>
          /\ last_interests[l][1] = "gaming"
          /\ last_interests[l][2] # <<>>
    /\ graph.interests["gaming"] # <<>>

\* C35: the list a merge returns is exactly the facts of the payload that
\* quick_facts did not hold before the merge, in payload order; it is a
\* function of the graph before the merge and of the payload alone, and the
\* durable store is not touched.
C35_ReturnsDelta ==
    /\ merges > 0 =>
          /\ Len(added_facts) = Cardinality({k \in 1..Len(last_payload) :
                                               last_payload[k] \notin Range(last_before)})
          /\ \A k \in 1..Len(added_facts) :
                LET kept == {j \in 1..Len(last_payload) :
                                last_payload[j] \notin Range(last_before)}
                    j == CHOOSE x \in kept : Cardinality({y \in kept : y <= x}) = k
                IN added_facts[k] = last_payload[j]
    /\ durable = NoGraphs

\* a merge of a payload of which one fact was already in quick_facts and
\* another was not: the list returned is shorter than the payload
C35_Witness ==
    /\ merges > 1
    /\ added_facts # <<>>
    /\ \E k \in 1..Len(last_payload) : last_payload[k] \in Range(last_before)
    /\ Len(added_facts) < Len(last_payload)

\* the entries of a graph's interests without their added_at
WithoutAddedAt(interests) ==
    [c \in DOMAIN interests |->
        [i \in 1..Len(interests[c]) |->
            [name |-> interests[c][i].name,
             status |-> interests[c][i].status,
             current |-> interests[c][i].current]]]

\* C40: merging the payload that was merged last once more changes neither
\* quick_facts nor the interest entries (apart from added_at) and returns no
\* newly added fact, for payloads of any size.
C40_MergeTwiceIdempotent ==
    [][(/\ merges > 0
        /\ merges' = merges + 1
        /\ last_payload' = last_payload
        /\ last_interests' = last_interests)
          => /\ graph'.quick_facts = graph.quick_facts
             /\ WithoutAddedAt(graph'.interests) = WithoutAddedAt(graph.interests)
             /\ added_facts' = <<>>]_vars

-----------------------------------------------------------------------------
(* Further claims about the nightly task, checked under SpecLive *)

\* the ways the analysis of a user ends without a graph
AnalysisFailures == EnrichmentFailures \cup {"merge_failed"}

\* C36: when the analysis of a user fails in a run, by an enrichment error or
\* by a payload that cannot be merged, nothing of the payload has been
\* applied: the durable store is as it was, and the user's cached graph holds
\* what it held before the payload arrived.
C36_FailedAnalysisAppliesNothing ==
    [][\A u \in Users :
          (outcome[u] = "none" /\ outcome'[u] \in AnalysisFailures) =>
              /\ durable' = durable
              /\ IF u \in DOMAIN merged'
                   THEN Content(cache'[u]) = merged'[u].pre
                   ELSE cache' = cache]_vars

\* graph g holds every fact and every interest entry that content post holds
\* and content pre does not
HoldsMerged(g, pre, post) ==
    /\ Range(post.quick_facts) \ Range(pre.quick_facts) \subseteq Range(g.quick_facts)
    /\ \A c \in DOMAIN post.interests :
          \A i \in 1..Len(post.interests[c]) :
             (\A k \in 1..Len(pre.interests[c]) :
                  pre.interests[c][k].name # post.interests[c][i].name)
               => \E j \in 1..Len(g.interests[c]) :
                     g.interests[c][j].name = post.interests[c][i].name

\* C38: clear_cache discards no merged state that was not persisted: what a
\* run merged into a user's graph is in the graph that the next get_user_graph
\* returns after the cache was cleared, also when the save had failed.
C38_InvalidateKeepsMerged ==
    [][(pc = "Invalidating" /\ pc' = "Pruning" /\ wiring.knowledge_manager) =>
          \A u \in DOMAIN merged :
              outcome[u] = "ok" =>
                  HoldsMerged(get_user_graph(u, TRUE)', merged[u].pre, merged[u].post)]_vars

-----------------------------------------------------------------------------
(* Further claim about the manager, checked under SpecManager *)

\* document new holds every fact and every interest entry that document old holds
DocumentKeeps(old, new) ==
    /\ Range(old.knowledge_graph.quick_facts) \subseteq Range(new.knowledge_graph.quick_facts)
    /\ \A c \in DOMAIN old.knowledge_graph.interests :
          \A i \in 1..Len(old.knowledge_graph.interests[c]) :
             \E j \in 1..Len(new.knowledge_graph.interests[c]) :
                new.knowledge_graph.interests[c][j].name =
                   old.knowledge_graph.interests[c][i].name

\* C37: for a user who has a persisted graph document, no save overwrites
\* the document with a graph that lacks facts or interest entries of the
\* persisted document, also after a load of the document has failed.
C37_SaveKeepsPersisted ==
    [][(/\ mgr_event'.op = "save_user_graph"
        /\ mgr_event'.written
        /\ mgr_event'.user \in DOMAIN durable
        /\ Reconstructible(durable[mgr_event'.user]))
          => DocumentKeeps(durable[mgr_event'.user], durable'[mgr_event'.user])]_vars

-----------------------------------------------------------------------------
(* Claim about consecutive runs, checked under SpecRuns *)

\* C39: across consecutive nightly runs with appends between them, each
\* message of a user is in the collected set of at most one run; stated for
\* the messages of earlier days, those that a local midnight has passed.
C39_CollectedAtMostOnce ==
    \A i \in 1..Len(daily_log) :
        (daily_log[i].user_id # BOT_USER_ID /\ ~daily_log[i].today)
           => daily_log[i].collected <= 1

====
